---- MODULE Spec2Model ----
(***************************************************************************)
(* Model of package agui (AG-UI JSON codec): the enumerations, the event   *)
(* and message variants with their Validate methods, the discriminating    *)
(* codec (probe, dispatch, full parse, validate), the Encoder/Decoder and  *)
(* the StreamDecoder goroutine with its two buffered channels.             *)
(*                                                                         *)
(* Representation.  A JSON value is a record tagged by k.  A Go struct is  *)
(* a record whose field names are the Go field names plus "variant", the   *)
(* concrete Go type.  A *int64 is a sequence of length 0 (nil) or 1.  An   *)
(* interface{} payload is the JSON value it holds, JNull standing for the  *)
(* nil interface.  A slice is [nil, items].  An error is [is, msg]: the    *)
(* sentinel it wraps (errors.Is) and its message chain; NoErr is nil.      *)
(***************************************************************************)
EXTENDS Integers, Sequences, FiniteSets, TLC

\* ------------------------------------------------------------------ bounds
MaxLen == 3

\* ------------------------------------------------------------- JSON values
JNull == [k |-> "null"]
JStr(s) == [k |-> "str", s |-> s]
JNum(n) == [k |-> "num", n |-> n]
JArr(items) == [k |-> "arr", items |-> items]
JObj(f) == [k |-> "obj", f |-> f]

\* A byte slice handed to the codec: well-formed JSON text, or text the JSON
\* scanner rejects ("syntax": e.g. {not json; "truncated": input ends inside a value).
Bytes(j) == [wf |-> TRUE, j |-> j]
BadBytes(why) == [wf |-> FALSE, why |-> why]
NilBytes == [wf |-> FALSE, why |-> "nil"]

\* ------------------------------------------------------------- Go values
NilPtr == <<>>
Ptr(n) == <<n>>
NilSlice == [nil |-> TRUE, items |-> <<>>]
Slice(s) == [nil |-> FALSE, items |-> s]
Nil == [variant |-> "nil"]

\* ------------------------------------------------------------------ errors
NoErr == [is |-> "", msg |-> <<>>]
ErrInvalidEventType == "agui: invalid event type"
ErrInvalidMessageType == "agui: invalid message type"
ErrInvalidStructure == "agui: invalid message structure"
ErrUnmarshalFailed == "agui: failed to unmarshal"
ErrMarshalFailed == "agui: failed to marshal"
ErrValidationFailed == "agui: validation failed"
EOF == [is |-> "EOF", msg |-> <<"EOF">>]

\* fmt.Errorf("%w: ...", sentinel, ...): an error that wraps the sentinel
Wrap(sentinel, msg) == [is |-> sentinel, msg |-> <<sentinel>> \o msg]
\* fmt.Errorf without %w on a sentinel (the Validate methods): wraps none
Plain(msg) == [is |-> "", msg |-> msg]
\* errors.Is(err, sentinel)
ErrorsIs(err, sentinel) == err # NoErr /\ err.is = sentinel

\* ------------------------------------------------------------ enumerations
EventTypeTextMessageStart == "TEXT_MESSAGE_START"
EventTypeTextMessageContent == "TEXT_MESSAGE_CONTENT"
EventTypeTextMessageEnd == "TEXT_MESSAGE_END"
EventTypeToolCallStart == "TOOL_CALL_START"
EventTypeToolCallArgs == "TOOL_CALL_ARGS"
EventTypeToolCallEnd == "TOOL_CALL_END"
EventTypeToolCallResult == "TOOL_CALL_RESULT"
EventTypeStateSnapshot == "STATE_SNAPSHOT"
EventTypeStateDelta == "STATE_DELTA"
EventTypeMessagesSnapshot == "MESSAGES_SNAPSHOT"
EventTypeRaw == "RAW"
EventTypeCustom == "CUSTOM"
EventTypeRunStarted == "RUN_STARTED"
EventTypeRunFinished == "RUN_FINISHED"
EventTypeRunError == "RUN_ERROR"
EventTypeStepStarted == "STEP_STARTED"
EventTypeStepFinished == "STEP_FINISHED"

EventType_IsValid(e) ==
    e \in {EventTypeTextMessageStart, EventTypeTextMessageContent, EventTypeTextMessageEnd,
           EventTypeToolCallStart, EventTypeToolCallArgs, EventTypeToolCallEnd, EventTypeToolCallResult,
           EventTypeStateSnapshot, EventTypeStateDelta, EventTypeMessagesSnapshot,
           EventTypeRaw, EventTypeCustom,
           EventTypeRunStarted, EventTypeRunFinished, EventTypeRunError,
           EventTypeStepStarted, EventTypeStepFinished}

RoleDeveloper == "developer"
RoleSystem == "system"
RoleAssistant == "assistant"
RoleUser == "user"
RoleTool == "tool"

Role_IsValid(r) == r \in {RoleDeveloper, RoleSystem, RoleAssistant, RoleUser, RoleTool}

ToolCallTypeFunction == "function"

ToolCallType_IsValid(t) == t = ToolCallTypeFunction

\* ------------------------------------------- struct declarations (json tags)
Field(name, key, typ, omit) == [name |-> name, key |-> key, typ |-> typ, omitempty |-> omit]

BaseEvent ==
    << Field("Type", "type", "string", FALSE),
       Field("Timestamp", "timestamp", "*int64", TRUE),
       Field("RawEvent", "rawEvent", "interface{}", TRUE) >>

EventProbe == BaseEvent

BaseMessage ==
    << Field("ID", "id", "string", FALSE),
       Field("Role", "role", "string", FALSE),
       Field("Name", "name", "string", TRUE) >>

MessageProbe ==
    << Field("Role", "role", "string", FALSE),
       Field("ID", "id", "string", FALSE),
       Field("Name", "name", "string", TRUE) >>

FunctionCall ==
    << Field("Name", "name", "string", FALSE),
       Field("Arguments", "arguments", "string", FALSE) >>

ToolCall ==
    << Field("ID", "id", "string", FALSE),
       Field("Type", "type", "string", FALSE),
       Field("Function", "function", "FunctionCall", FALSE) >>

RunStartedEvent == BaseEvent \o
    << Field("ThreadID", "threadId", "string", FALSE),
       Field("RunID", "runId", "string", FALSE) >>

RunFinishedEvent == BaseEvent \o
    << Field("ThreadID", "threadId", "string", FALSE),
       Field("RunID", "runId", "string", FALSE),
       Field("Result", "result", "interface{}", TRUE) >>

RunErrorEvent == BaseEvent \o
    << Field("Message", "message", "string", FALSE),
       Field("Code", "code", "string", TRUE) >>

StepStartedEvent == BaseEvent \o << Field("StepName", "stepName", "string", FALSE) >>

StepFinishedEvent == BaseEvent \o << Field("StepName", "stepName", "string", FALSE) >>

TextMessageStartEvent == BaseEvent \o
    << Field("MessageID", "messageId", "string", FALSE),
       Field("Role", "role", "string", FALSE) >>

TextMessageContentEvent == BaseEvent \o
    << Field("MessageID", "messageId", "string", FALSE),
       Field("Delta", "delta", "string", FALSE) >>

TextMessageEndEvent == BaseEvent \o << Field("MessageID", "messageId", "string", FALSE) >>

ToolCallStartEvent == BaseEvent \o
    << Field("ToolCallID", "toolCallId", "string", FALSE),
       Field("ToolCallName", "toolCallName", "string", FALSE),
       Field("ParentMessageID", "parentMessageId", "string", TRUE) >>

ToolCallArgsEvent == BaseEvent \o
    << Field("ToolCallID", "toolCallId", "string", FALSE),
       Field("Delta", "delta", "string", FALSE) >>

ToolCallEndEvent == BaseEvent \o << Field("ToolCallID", "toolCallId", "string", FALSE) >>

ToolCallResultEvent == BaseEvent \o
    << Field("MessageID", "messageId", "string", FALSE),
       Field("ToolCallID", "toolCallId", "string", FALSE),
       Field("Content", "content", "string", FALSE),
       Field("Role", "role", "string", TRUE) >>

StateSnapshotEvent == BaseEvent \o << Field("Snapshot", "snapshot", "interface{}", FALSE) >>

StateDeltaEvent == BaseEvent \o << Field("Delta", "delta", "[]interface{}", FALSE) >>

MessagesSnapshotEvent == BaseEvent \o << Field("Messages", "messages", "[]Message", FALSE) >>

RawEvent == BaseEvent \o
    << Field("Event", "event", "interface{}", FALSE),
       Field("Source", "source", "string", TRUE) >>

CustomEvent == BaseEvent \o
    << Field("Name", "name", "string", FALSE),
       Field("Value", "value", "interface{}", FALSE) >>

DeveloperMessage == BaseMessage \o << Field("Content", "content", "string", FALSE) >>

SystemMessage == BaseMessage \o << Field("Content", "content", "string", FALSE) >>

AssistantMessage == BaseMessage \o
    << Field("Content", "content", "string", TRUE),
       Field("ToolCalls", "toolCalls", "[]ToolCall", TRUE) >>

UserMessage == BaseMessage \o << Field("Content", "content", "string", FALSE) >>

ToolMessage == BaseMessage \o
    << Field("Content", "content", "string", FALSE),
       Field("ToolCallID", "toolCallId", "string", FALSE),
       Field("Error", "error", "string", TRUE) >>

\* The struct declaration of a concrete Go type, by its name.
StructOf(variant) ==
    CASE variant = "RunStartedEvent" -> RunStartedEvent
      [] variant = "RunFinishedEvent" -> RunFinishedEvent
      [] variant = "RunErrorEvent" -> RunErrorEvent
      [] variant = "StepStartedEvent" -> StepStartedEvent
      [] variant = "StepFinishedEvent" -> StepFinishedEvent
      [] variant = "TextMessageStartEvent" -> TextMessageStartEvent
      [] variant = "TextMessageContentEvent" -> TextMessageContentEvent
      [] variant = "TextMessageEndEvent" -> TextMessageEndEvent
      [] variant = "ToolCallStartEvent" -> ToolCallStartEvent
      [] variant = "ToolCallArgsEvent" -> ToolCallArgsEvent
      [] variant = "ToolCallEndEvent" -> ToolCallEndEvent
      [] variant = "ToolCallResultEvent" -> ToolCallResultEvent
      [] variant = "StateSnapshotEvent" -> StateSnapshotEvent
      [] variant = "StateDeltaEvent" -> StateDeltaEvent
      [] variant = "MessagesSnapshotEvent" -> MessagesSnapshotEvent
      [] variant = "RawEvent" -> RawEvent
      [] variant = "CustomEvent" -> CustomEvent
      [] variant = "DeveloperMessage" -> DeveloperMessage
      [] variant = "SystemMessage" -> SystemMessage
      [] variant = "AssistantMessage" -> AssistantMessage
      [] variant = "UserMessage" -> UserMessage
      [] variant = "ToolMessage" -> ToolMessage
      [] variant = "ToolCall" -> ToolCall
      [] variant = "FunctionCall" -> FunctionCall
      [] variant = "EventProbe" -> EventProbe
      [] variant = "MessageProbe" -> MessageProbe

\* --------------------------------------------------------- encoding/json
\* The element of a one-element set.
Only(S) == CHOOSE x \in S : TRUE

\* The names of the fields a struct declares, embedded header included.
NamesOf(fs) == {fs[i].name : i \in DOMAIN fs}

FieldNames(variant) == NamesOf(StructOf(variant))

\* The declaration of the field called n.
FieldNamed(fs, n) == fs[CHOOSE i \in DOMAIN fs : fs[i].name = n]

\* The declaration of the field stored under the JSON key.
FieldKeyed(fs, key) == fs[CHOOSE i \in DOMAIN fs : fs[i].key = key]

\* A value json.Marshal rejects (a channel or function held in an interface{}).
JUnsupported == [k |-> "chan"]

RECURSIVE ZeroValue(_)
RECURSIVE ZeroStruct(_, _)
\* The Go zero value of a field type.
ZeroValue(typ) ==
    CASE typ = "string" -> ""
      [] typ = "*int64" -> NilPtr
      [] typ = "interface{}" -> JNull
      [] typ \in {"[]interface{}", "[]Message", "[]ToolCall"} -> NilSlice
      [] OTHER -> ZeroStruct(typ, StructOf(typ))

\* The zero value of a struct: every field at its zero value.
ZeroStruct(variant, fs) ==
    [n \in NamesOf(fs) \cup {"variant"} |->
        IF n = "variant" THEN variant ELSE ZeroValue(FieldNamed(fs, n).typ)]

RECURSIVE decodeValue(_, _)
RECURSIVE decodeField(_, _)
RECURSIVE decodeFields(_, _, _)
RECURSIVE UnmarshalStruct(_, _)
\* json.Unmarshal of the JSON value j into a Go value of type typ: [ok, v].
\* null leaves the zero value; a JSON value of another kind than the Go type
\* accepts is an UnmarshalTypeError; an object or any non-null value cannot be
\* stored in the non-empty interface Message.
decodeValue(typ, j) ==
    CASE typ = "string" ->
            IF j.k = "str" THEN [ok |-> TRUE, v |-> j.s]
            ELSE [ok |-> j.k = "null", v |-> ""]
      [] typ = "*int64" ->
            IF j.k = "num" THEN [ok |-> TRUE, v |-> Ptr(j.n)]
            ELSE [ok |-> j.k = "null", v |-> NilPtr]
      [] typ = "interface{}" -> [ok |-> TRUE, v |-> j]
      [] typ = "[]interface{}" ->
            IF j.k = "arr" THEN [ok |-> TRUE, v |-> Slice(j.items)]
            ELSE [ok |-> j.k = "null", v |-> NilSlice]
      [] typ = "[]Message" ->
            IF j.k = "arr"
            THEN [ok |-> \A i \in 1..Len(j.items) : j.items[i].k = "null",
                  v |-> Slice([i \in 1..Len(j.items) |-> Nil])]
            ELSE [ok |-> j.k = "null", v |-> NilSlice]
      [] typ = "[]ToolCall" ->
            IF j.k = "arr"
            THEN [ok |-> \A i \in 1..Len(j.items) : UnmarshalStruct("ToolCall", j.items[i]).ok,
                  v |-> Slice([i \in 1..Len(j.items) |->
                                 UnmarshalStruct("ToolCall", j.items[i]).v])]
            ELSE [ok |-> j.k = "null", v |-> NilSlice]
      [] OTHER -> UnmarshalStruct(typ, j)

\* One field of a struct: decoded from its key when the object has it, else
\* left at the zero value.
decodeField(fd, j) ==
    IF j.k = "obj" /\ fd.key \in DOMAIN j.f
    THEN decodeValue(fd.typ, j.f[fd.key])
    ELSE [ok |-> TRUE, v |-> ZeroValue(fd.typ)]

\* json.Unmarshal of the JSON value j into a zero struct declared as fs:
\* keys the struct does not declare are ignored, absent keys leave the zero
\* value, and the first badly typed field makes the call fail.
decodeFields(variant, fs, j) ==
    [ok |-> j.k \in {"obj", "null"} /\ \A i \in DOMAIN fs : decodeField(fs[i], j).ok,
     v |-> [n \in NamesOf(fs) \cup {"variant"} |->
              IF n = "variant" THEN variant ELSE decodeField(FieldNamed(fs, n), j).v]]

UnmarshalStruct(variant, j) ==
    Only({decodeFields(variant, fs, j) : fs \in {StructOf(variant)}})

\* json.Unmarshal(data, &v): fails on text that is not JSON, else as above.
Unmarshal(data, variant) ==
    IF ~data.wf THEN [ok |-> FALSE, v |-> ZeroValue(variant)]
    ELSE UnmarshalStruct(variant, data.j)

\* omitempty: false, 0, nil pointer, nil interface, empty slice or string
isEmptyValue(typ, v) ==
    CASE typ = "string" -> v = ""
      [] typ = "*int64" -> v = NilPtr
      [] typ = "interface{}" -> v = JNull
      [] typ \in {"[]interface{}", "[]Message", "[]ToolCall"} -> Len(v.items) = 0
      [] OTHER -> FALSE

RECURSIVE encodeValue(_, _)
RECURSIVE encodeElement(_)
RECURSIVE encodeFields(_, _, _)
RECURSIVE MarshalStruct(_)
\* json.Marshal of a Go value of type typ: [ok, j].
encodeValue(typ, v) ==
    CASE typ = "string" -> [ok |-> TRUE, j |-> JStr(v)]
      [] typ = "*int64" -> [ok |-> TRUE, j |-> IF v = NilPtr THEN JNull ELSE JNum(v[1])]
      [] typ = "interface{}" -> [ok |-> v # JUnsupported, j |-> v]
      [] typ = "[]interface{}" ->
            [ok |-> \A i \in 1..Len(v.items) : v.items[i] # JUnsupported,
             j |-> IF v.nil THEN JNull ELSE JArr(v.items)]
      [] typ \in {"[]Message", "[]ToolCall"} ->
            [ok |-> \A i \in 1..Len(v.items) : encodeElement(v.items[i]).ok,
             j |-> IF v.nil THEN JNull
                   ELSE JArr([i \in 1..Len(v.items) |-> encodeElement(v.items[i]).j])]
      [] OTHER -> MarshalStruct(v)

\* One element of a slice of structs or interfaces: a nil interface is null.
encodeElement(e) ==
    IF e = Nil THEN [ok |-> TRUE, j |-> JNull] ELSE MarshalStruct(e)

\* The fields json.Marshal writes: all but the omitempty fields that are empty.
presentFields(fs, val) ==
    {i \in DOMAIN fs : ~(fs[i].omitempty /\ isEmptyValue(fs[i].typ, val[fs[i].name]))}

\* json.Marshal of a struct declared as fs, writing the fields in present.
encodeFields(fs, present, val) ==
    [ok |-> \A i \in present : encodeValue(fs[i].typ, val[fs[i].name]).ok,
     j |-> JObj([key \in {fs[i].key : i \in present} |->
                   encodeValue(FieldKeyed(fs, key).typ, val[FieldKeyed(fs, key).name]).j])]

\* json.Marshal of a struct: embedded header fields first, one key per field,
\* omitempty fields left out when empty.
MarshalStruct(val) ==
    encodeFields(StructOf(val.variant),
                 presentFields(StructOf(val.variant), val), val)

\* The bytes of a successfully marshalled value.
marshalled(m) == [ok |-> m.ok, data |-> Bytes(m.j)]

\* json.Marshal(v): [ok, data]
Marshal(val) == marshalled(MarshalStruct(val))

\* ------------------------------------------------------------ types.go
\* json.Unmarshal([]byte(f.Arguments), &args) succeeds: the string is JSON text.
StringIsJSON(s) == s \in {"{\"k\":1}", "{}", "[1]", "null"}

\* As FunctionCall.Validate, without the json.Unmarshal of the arguments.
FunctionCall_Validate_NoParse(f) ==
    IF f.Name = "" THEN Plain(<<"function name is required">>)
    ELSE IF f.Arguments = "" THEN Plain(<<"function arguments are required">>)
    ELSE NoErr

FunctionCall_Validate(f) ==
    IF f.Name = "" THEN Plain(<<"function name is required">>)
    ELSE IF f.Arguments = "" THEN Plain(<<"function arguments are required">>)
    ELSE IF ~StringIsJSON(f.Arguments) THEN Plain(<<"function arguments must be valid JSON">>)
    ELSE NoErr

ToolCall_Validate(t) ==
    IF t.ID = "" THEN Plain(<<"tool call ID is required">>)
    ELSE IF ~ToolCallType_IsValid(t.Type) THEN Plain(<<"invalid tool call type", t.Type>>)
    ELSE FunctionCall_Validate(t.Function)

\* The first index (in range order) whose element fails V, or 0 when none does.
FirstInvalid(items, V(_)) ==
    IF \E i \in 1..Len(items) : V(items[i]) # NoErr
    THEN CHOOSE i \in 1..Len(items) :
            /\ V(items[i]) # NoErr
            /\ \A h \in 1..(i - 1) : V(items[h]) = NoErr
    ELSE 0

\* fmt.Errorf("invalid <what> at index %d: %w", i, err), i counted from 0
AtIndex(what, i, err) == Plain(<<what, ToString(i - 1)>> \o err.msg)

Context_Validate(c) ==
    IF c.Description = "" THEN Plain(<<"context description is required">>)
    ELSE IF c.Value = "" THEN Plain(<<"context value is required">>)
    ELSE NoErr

Tool_Validate(t) ==
    IF t.Name = "" THEN Plain(<<"tool name is required">>)
    ELSE IF t.Description = "" THEN Plain(<<"tool description is required">>)
    ELSE IF t.Parameters = JNull THEN Plain(<<"tool parameters are required">>)
    ELSE NoErr

\* ---------------------------------------------------------- messages.go
BaseMessage_Validate(b) ==
    IF b.ID = "" THEN Plain(<<"message ID is required">>)
    ELSE IF ~Role_IsValid(b.Role) THEN Plain(<<"invalid message role", b.Role>>)
    ELSE NoErr

DeveloperMessage_Validate(d) ==
    IF BaseMessage_Validate(d) # NoErr THEN BaseMessage_Validate(d)
    ELSE IF d.Role # RoleDeveloper THEN Plain(<<"developer message must have developer role, got", d.Role>>)
    ELSE IF d.Content = "" THEN Plain(<<"developer message content is required">>)
    ELSE NoErr

SystemMessage_Validate(m) ==
    IF BaseMessage_Validate(m) # NoErr THEN BaseMessage_Validate(m)
    ELSE IF m.Role # RoleSystem THEN Plain(<<"system message must have system role, got", m.Role>>)
    ELSE IF m.Content = "" THEN Plain(<<"system message content is required">>)
    ELSE NoErr

AssistantMessage_Validate(a) ==
    IF BaseMessage_Validate(a) # NoErr THEN BaseMessage_Validate(a)
    ELSE IF a.Role # RoleAssistant THEN Plain(<<"assistant message must have assistant role, got", a.Role>>)
    ELSE LET i == FirstInvalid(a.ToolCalls.items, ToolCall_Validate)
         IN IF i # 0 THEN AtIndex("invalid tool call at index", i, ToolCall_Validate(a.ToolCalls.items[i]))
            ELSE NoErr

UserMessage_Validate(u) ==
    IF BaseMessage_Validate(u) # NoErr THEN BaseMessage_Validate(u)
    ELSE IF u.Role # RoleUser THEN Plain(<<"user message must have user role, got", u.Role>>)
    ELSE IF u.Content = "" THEN Plain(<<"user message content is required">>)
    ELSE NoErr

ToolMessage_Validate(t) ==
    IF BaseMessage_Validate(t) # NoErr THEN BaseMessage_Validate(t)
    ELSE IF t.Role # RoleTool THEN Plain(<<"tool message must have tool role, got", t.Role>>)
    ELSE IF t.Content = "" THEN Plain(<<"tool message content is required">>)
    ELSE IF t.ToolCallID = "" THEN Plain(<<"tool message toolCallId is required">>)
    ELSE NoErr

\* Message.Validate(): dynamic dispatch on the concrete type
Message_Validate(m) ==
    CASE m.variant = "DeveloperMessage" -> DeveloperMessage_Validate(m)
      [] m.variant = "SystemMessage" -> SystemMessage_Validate(m)
      [] m.variant = "AssistantMessage" -> AssistantMessage_Validate(m)
      [] m.variant = "UserMessage" -> UserMessage_Validate(m)
      [] m.variant = "ToolMessage" -> ToolMessage_Validate(m)

\* ------------------------------------------- types.go: RunAgentInput
\* As RunAgentInput.Validate, but the tools loop keeps the last failure.
RunAgentInput_Validate_LastTool(r) ==
    IF r.ThreadID = "" THEN Plain(<<"thread ID is required">>)
    ELSE IF r.RunID = "" THEN Plain(<<"run ID is required">>)
    ELSE LET m == FirstInvalid(r.Messages.items, Message_Validate)
             bad == {i \in 1..Len(r.Tools.items) : Tool_Validate(r.Tools.items[i]) # NoErr}
             t == CHOOSE i \in bad : \A j \in bad : j <= i
             c == FirstInvalid(r.Context.items, Context_Validate)
         IN IF m # 0 THEN AtIndex("invalid message at index", m, Message_Validate(r.Messages.items[m]))
            ELSE IF bad # {} THEN AtIndex("invalid tool at index", t, Tool_Validate(r.Tools.items[t]))
            ELSE IF c # 0 THEN AtIndex("invalid context at index", c, Context_Validate(r.Context.items[c]))
            ELSE NoErr

RunAgentInput_Validate(r) ==
    IF r.ThreadID = "" THEN Plain(<<"thread ID is required">>)
    ELSE IF r.RunID = "" THEN Plain(<<"run ID is required">>)
    ELSE LET m == FirstInvalid(r.Messages.items, Message_Validate)
             t == FirstInvalid(r.Tools.items, Tool_Validate)
             c == FirstInvalid(r.Context.items, Context_Validate)
         IN IF m # 0 THEN AtIndex("invalid message at index", m, Message_Validate(r.Messages.items[m]))
            ELSE IF t # 0 THEN AtIndex("invalid tool at index", t, Tool_Validate(r.Tools.items[t]))
            ELSE IF c # 0 THEN AtIndex("invalid context at index", c, Context_Validate(r.Context.items[c]))
            ELSE NoErr

\* ------------------------------------------------------------ events
BaseEvent_Validate(b) ==
    IF ~EventType_IsValid(b.Type) THEN Plain(<<"invalid event type", b.Type>>)
    ELSE NoErr

\* b.SetTimestamp(): now is time.Now().UnixMilli()
SetTimestamp(b, now) == [b EXCEPT !.Timestamp = Ptr(now)]

\* As RunStartedEvent.Validate, with the field checks ahead of the header checks.
RunStartedEvent_Validate_FieldsFirst(r) ==
    IF r.ThreadID = "" THEN Plain(<<"thread ID is required">>)
    ELSE IF r.RunID = "" THEN Plain(<<"run ID is required">>)
    ELSE IF BaseEvent_Validate(r) # NoErr THEN BaseEvent_Validate(r)
    ELSE IF r.Type # EventTypeRunStarted THEN Plain(<<"run started event must have RUN_STARTED type, got", r.Type>>)
    ELSE NoErr

RunStartedEvent_Validate(r) ==
    IF BaseEvent_Validate(r) # NoErr THEN BaseEvent_Validate(r)
    ELSE IF r.Type # EventTypeRunStarted THEN Plain(<<"run started event must have RUN_STARTED type, got", r.Type>>)
    ELSE IF r.ThreadID = "" THEN Plain(<<"thread ID is required">>)
    ELSE IF r.RunID = "" THEN Plain(<<"run ID is required">>)
    ELSE NoErr

RunFinishedEvent_Validate(r) ==
    IF BaseEvent_Validate(r) # NoErr THEN BaseEvent_Validate(r)
    ELSE IF r.Type # EventTypeRunFinished THEN Plain(<<"run finished event must have RUN_FINISHED type, got", r.Type>>)
    ELSE IF r.ThreadID = "" THEN Plain(<<"thread ID is required">>)
    ELSE IF r.RunID = "" THEN Plain(<<"run ID is required">>)
    ELSE NoErr

RunErrorEvent_Validate(r) ==
    IF BaseEvent_Validate(r) # NoErr THEN BaseEvent_Validate(r)
    ELSE IF r.Type # EventTypeRunError THEN Plain(<<"run error event must have RUN_ERROR type, got", r.Type>>)
    ELSE IF r.Message = "" THEN Plain(<<"error message is required">>)
    ELSE NoErr

StepStartedEvent_Validate(e) ==
    IF BaseEvent_Validate(e) # NoErr THEN BaseEvent_Validate(e)
    ELSE IF e.Type # EventTypeStepStarted THEN Plain(<<"step started event must have STEP_STARTED type, got", e.Type>>)
    ELSE IF e.StepName = "" THEN Plain(<<"step name is required">>)
    ELSE NoErr

StepFinishedEvent_Validate(e) ==
    IF BaseEvent_Validate(e) # NoErr THEN BaseEvent_Validate(e)
    ELSE IF e.Type # EventTypeStepFinished THEN Plain(<<"step finished event must have STEP_FINISHED type, got", e.Type>>)
    ELSE IF e.StepName = "" THEN Plain(<<"step name is required">>)
    ELSE NoErr

TextMessageStartEvent_Validate(t) ==
    IF BaseEvent_Validate(t) # NoErr THEN BaseEvent_Validate(t)
    ELSE IF t.Type # EventTypeTextMessageStart THEN Plain(<<"text message start event must have TEXT_MESSAGE_START type, got", t.Type>>)
    ELSE IF t.MessageID = "" THEN Plain(<<"message ID is required">>)
    ELSE IF t.Role # RoleAssistant THEN Plain(<<"text message role must be assistant, got", t.Role>>)
    ELSE NoErr

TextMessageContentEvent_Validate(t) ==
    IF BaseEvent_Validate(t) # NoErr THEN BaseEvent_Validate(t)
    ELSE IF t.Type # EventTypeTextMessageContent THEN Plain(<<"text message content event must have TEXT_MESSAGE_CONTENT type, got", t.Type>>)
    ELSE IF t.MessageID = "" THEN Plain(<<"message ID is required">>)
    ELSE IF t.Delta = "" THEN Plain(<<"delta must not be empty">>)
    ELSE NoErr

TextMessageEndEvent_Validate(t) ==
    IF BaseEvent_Validate(t) # NoErr THEN BaseEvent_Validate(t)
    ELSE IF t.Type # EventTypeTextMessageEnd THEN Plain(<<"text message end event must have TEXT_MESSAGE_END type, got", t.Type>>)
    ELSE IF t.MessageID = "" THEN Plain(<<"message ID is required">>)
    ELSE NoErr

ToolCallStartEvent_Validate(t) ==
    IF BaseEvent_Validate(t) # NoErr THEN BaseEvent_Validate(t)
    ELSE IF t.Type # EventTypeToolCallStart THEN Plain(<<"tool call start event must have TOOL_CALL_START type, got", t.Type>>)
    ELSE IF t.ToolCallID = "" THEN Plain(<<"tool call ID is required">>)
    ELSE IF t.ToolCallName = "" THEN Plain(<<"tool call name is required">>)
    ELSE NoErr

ToolCallArgsEvent_Validate(t) ==
    IF BaseEvent_Validate(t) # NoErr THEN BaseEvent_Validate(t)
    ELSE IF t.Type # EventTypeToolCallArgs THEN Plain(<<"tool call args event must have TOOL_CALL_ARGS type, got", t.Type>>)
    ELSE IF t.ToolCallID = "" THEN Plain(<<"tool call ID is required">>)
    ELSE NoErr

ToolCallEndEvent_Validate(t) ==
    IF BaseEvent_Validate(t) # NoErr THEN BaseEvent_Validate(t)
    ELSE IF t.Type # EventTypeToolCallEnd THEN Plain(<<"tool call end event must have TOOL_CALL_END type, got", t.Type>>)
    ELSE IF t.ToolCallID = "" THEN Plain(<<"tool call ID is required">>)
    ELSE NoErr

\* As ToolCallResultEvent.Validate, but the role is checked even when absent.
ToolCallResultEvent_Validate_RoleRequired(t) ==
    IF BaseEvent_Validate(t) # NoErr THEN BaseEvent_Validate(t)
    ELSE IF t.Type # EventTypeToolCallResult THEN Plain(<<"tool call result event must have TOOL_CALL_RESULT type, got", t.Type>>)
    ELSE IF t.MessageID = "" THEN Plain(<<"message ID is required">>)
    ELSE IF t.ToolCallID = "" THEN Plain(<<"tool call ID is required">>)
    ELSE IF t.Content = "" THEN Plain(<<"content is required">>)
    ELSE IF ~Role_IsValid(t.Role) THEN Plain(<<"invalid role", t.Role>>)
    ELSE NoErr

ToolCallResultEvent_Validate(t) ==
    IF BaseEvent_Validate(t) # NoErr THEN BaseEvent_Validate(t)
    ELSE IF t.Type # EventTypeToolCallResult THEN Plain(<<"tool call result event must have TOOL_CALL_RESULT type, got", t.Type>>)
    ELSE IF t.MessageID = "" THEN Plain(<<"message ID is required">>)
    ELSE IF t.ToolCallID = "" THEN Plain(<<"tool call ID is required">>)
    ELSE IF t.Content = "" THEN Plain(<<"content is required">>)
    ELSE IF t.Role # "" /\ ~Role_IsValid(t.Role) THEN Plain(<<"invalid role", t.Role>>)
    ELSE NoErr

StateSnapshotEvent_Validate(e) ==
    IF BaseEvent_Validate(e) # NoErr THEN BaseEvent_Validate(e)
    ELSE IF e.Type # EventTypeStateSnapshot THEN Plain(<<"state snapshot event must have STATE_SNAPSHOT type, got", e.Type>>)
    ELSE IF e.Snapshot = JNull THEN Plain(<<"snapshot is required">>)
    ELSE NoErr

StateDeltaEvent_Validate(e) ==
    IF BaseEvent_Validate(e) # NoErr THEN BaseEvent_Validate(e)
    ELSE IF e.Type # EventTypeStateDelta THEN Plain(<<"state delta event must have STATE_DELTA type, got", e.Type>>)
    ELSE IF e.Delta.nil THEN Plain(<<"delta is required">>)
    ELSE NoErr

\* As MessagesSnapshotEvent.Validate, but an empty sequence is refused like nil.
MessagesSnapshotEvent_Validate_EmptyRefused(m) ==
    IF BaseEvent_Validate(m) # NoErr THEN BaseEvent_Validate(m)
    ELSE IF m.Type # EventTypeMessagesSnapshot THEN Plain(<<"messages snapshot event must have MESSAGES_SNAPSHOT type, got", m.Type>>)
    ELSE IF m.Messages.nil \/ m.Messages.items = <<>> THEN Plain(<<"messages are required">>)
    ELSE LET i == FirstInvalid(m.Messages.items, Message_Validate)
         IN IF i # 0 THEN AtIndex("invalid message at index", i, Message_Validate(m.Messages.items[i]))
            ELSE NoErr

MessagesSnapshotEvent_Validate(m) ==
    IF BaseEvent_Validate(m) # NoErr THEN BaseEvent_Validate(m)
    ELSE IF m.Type # EventTypeMessagesSnapshot THEN Plain(<<"messages snapshot event must have MESSAGES_SNAPSHOT type, got", m.Type>>)
    ELSE IF m.Messages.nil THEN Plain(<<"messages are required">>)
    ELSE LET i == FirstInvalid(m.Messages.items, Message_Validate)
         IN IF i # 0 THEN AtIndex("invalid message at index", i, Message_Validate(m.Messages.items[i]))
            ELSE NoErr

RawEvent_Validate(r) ==
    IF BaseEvent_Validate(r) # NoErr THEN BaseEvent_Validate(r)
    ELSE IF r.Type # EventTypeRaw THEN Plain(<<"raw event must have RAW type, got", r.Type>>)
    ELSE IF r.Event = JNull THEN Plain(<<"event is required">>)
    ELSE NoErr

CustomEvent_Validate(c) ==
    IF BaseEvent_Validate(c) # NoErr THEN BaseEvent_Validate(c)
    ELSE IF c.Type # EventTypeCustom THEN Plain(<<"custom event must have CUSTOM type, got", c.Type>>)
    ELSE IF c.Name = "" THEN Plain(<<"name is required">>)
    ELSE IF c.Value = JNull THEN Plain(<<"value is required">>)
    ELSE NoErr

\* Event.Validate(): dynamic dispatch on the concrete type
Event_Validate(e) ==
    CASE e.variant = "RunStartedEvent" -> RunStartedEvent_Validate(e)
      [] e.variant = "RunFinishedEvent" -> RunFinishedEvent_Validate(e)
      [] e.variant = "RunErrorEvent" -> RunErrorEvent_Validate(e)
      [] e.variant = "StepStartedEvent" -> StepStartedEvent_Validate(e)
      [] e.variant = "StepFinishedEvent" -> StepFinishedEvent_Validate(e)
      [] e.variant = "TextMessageStartEvent" -> TextMessageStartEvent_Validate(e)
      [] e.variant = "TextMessageContentEvent" -> TextMessageContentEvent_Validate(e)
      [] e.variant = "TextMessageEndEvent" -> TextMessageEndEvent_Validate(e)
      [] e.variant = "ToolCallStartEvent" -> ToolCallStartEvent_Validate(e)
      [] e.variant = "ToolCallArgsEvent" -> ToolCallArgsEvent_Validate(e)
      [] e.variant = "ToolCallEndEvent" -> ToolCallEndEvent_Validate(e)
      [] e.variant = "ToolCallResultEvent" -> ToolCallResultEvent_Validate(e)
      [] e.variant = "StateSnapshotEvent" -> StateSnapshotEvent_Validate(e)
      [] e.variant = "StateDeltaEvent" -> StateDeltaEvent_Validate(e)
      [] e.variant = "MessagesSnapshotEvent" -> MessagesSnapshotEvent_Validate(e)
      [] e.variant = "RawEvent" -> RawEvent_Validate(e)
      [] e.variant = "CustomEvent" -> CustomEvent_Validate(e)

\* EventTypeName() / MessageType(): the concrete type name
EventTypeName(e) == e.variant

MessageType(m) == m.variant

GetType(e) == e.Type

GetRole(m) == m.Role

GetID(m) == m.ID

\* ------------------------------------------------------------- the codec
\* The message of an encoding/json error for the given input.
JSONError(data) ==
    IF data.wf THEN "json: cannot unmarshal into Go value"
    ELSE IF data.why = "truncated" THEN "unexpected end of JSON input"
    ELSE "invalid character"

\* The two steps every encode call makes, in order: the error of Validate, if
\* any, wrapped in ErrValidationFailed with no output; then json.Marshal, its
\* error wrapped in ErrMarshalFailed.
encodeResult(verr, m) ==
    IF verr # NoErr
    THEN [data |-> NilBytes, err |-> Wrap(ErrValidationFailed, verr.msg)]
    ELSE IF ~m.ok
    THEN [data |-> NilBytes, err |-> Wrap(ErrMarshalFailed, <<"json: unsupported type">>)]
    ELSE [data |-> m.data, err |-> NoErr]

\* EncodeEvent without the Validate call: marshals whatever it is given.
EncodeEvent_NoValidate(event) == encodeResult(NoErr, Marshal(event))

\* EncodeEvent(event): [data, err]
EncodeEvent(event) == encodeResult(Event_Validate(event), Marshal(event))

\* EncodeMessage(message): [data, err]
EncodeMessage(message) == encodeResult(Message_Validate(message), Marshal(message))

\* The bytes the full parse reads: probe.RawData, or the re-marshalled probe
\* when RawData is nil.
probeData(probe) ==
    IF probe.RawData # NilBytes THEN probe.RawData ELSE Marshal(probe).data

\* One case of the type switch whose full parse leaves the header's type unread.
decodeEventCase_TypeUnread(variant, data, full) ==
    Only({IF ~f.ok
          THEN [val |-> Nil, err |-> Wrap(ErrUnmarshalFailed, <<variant, JSONError(data)>>)]
          ELSE [val |-> [f.v EXCEPT !.Type = ""],
                err |-> Event_Validate([f.v EXCEPT !.Type = ""])] : f \in {full}})

\* One case of the event type switch, after json.Unmarshal(data, &event) gave
\* full (f below, computed once): a failed parse is wrapped in
\* ErrUnmarshalFailed, and otherwise the case ends in
\* `return &event, event.Validate()`.
decodeEventCase(variant, data, full) ==
    Only({IF ~f.ok
          THEN [val |-> Nil, err |-> Wrap(ErrUnmarshalFailed, <<variant, JSONError(data)>>)]
          ELSE [val |-> f.v, err |-> Event_Validate(f.v)] : f \in {full}})

\* The switch on probe.Type.
decodeEventSwitch(type, data) ==
    CASE type = EventTypeRunStarted ->
            decodeEventCase("RunStartedEvent", data, Unmarshal(data, "RunStartedEvent"))
      [] type = EventTypeRunFinished ->
            decodeEventCase("RunFinishedEvent", data, Unmarshal(data, "RunFinishedEvent"))
      [] type = EventTypeRunError ->
            decodeEventCase("RunErrorEvent", data, Unmarshal(data, "RunErrorEvent"))
      [] type = EventTypeStepStarted ->
            decodeEventCase("StepStartedEvent", data, Unmarshal(data, "StepStartedEvent"))
      [] type = EventTypeStepFinished ->
            decodeEventCase("StepFinishedEvent", data, Unmarshal(data, "StepFinishedEvent"))
      [] type = EventTypeTextMessageStart ->
            decodeEventCase("TextMessageStartEvent", data, Unmarshal(data, "TextMessageStartEvent"))
      [] type = EventTypeTextMessageContent ->
            decodeEventCase("TextMessageContentEvent", data, Unmarshal(data, "TextMessageContentEvent"))
      [] type = EventTypeTextMessageEnd ->
            decodeEventCase("TextMessageEndEvent", data, Unmarshal(data, "TextMessageEndEvent"))
      [] type = EventTypeToolCallStart ->
            decodeEventCase("ToolCallStartEvent", data, Unmarshal(data, "ToolCallStartEvent"))
      [] type = EventTypeToolCallArgs ->
            decodeEventCase("ToolCallArgsEvent", data, Unmarshal(data, "ToolCallArgsEvent"))
      [] type = EventTypeToolCallEnd ->
            decodeEventCase("ToolCallEndEvent", data, Unmarshal(data, "ToolCallEndEvent"))
      [] type = EventTypeToolCallResult ->
            decodeEventCase("ToolCallResultEvent", data, Unmarshal(data, "ToolCallResultEvent"))
      [] type = EventTypeStateSnapshot ->
            decodeEventCase("StateSnapshotEvent", data, Unmarshal(data, "StateSnapshotEvent"))
      [] type = EventTypeStateDelta ->
            decodeEventCase("StateDeltaEvent", data, Unmarshal(data, "StateDeltaEvent"))
      [] type = EventTypeMessagesSnapshot ->
            decodeEventCase("MessagesSnapshotEvent", data, Unmarshal(data, "MessagesSnapshotEvent"))
      [] type = EventTypeRaw ->
            decodeEventCase("RawEvent", data, Unmarshal(data, "RawEvent"))
      [] type = EventTypeCustom ->
            decodeEventCase("CustomEvent", data, Unmarshal(data, "CustomEvent"))
      [] OTHER -> [val |-> Nil, err |-> Wrap(ErrInvalidEventType, <<"unknown event type", type>>)]

\* As decodeEventFromProbe, with STEP_FINISHED sharing the case of STEP_STARTED.
decodeEventFromProbe_Folded(probe) ==
    decodeEventSwitch(IF probe.Type = EventTypeStepFinished THEN EventTypeStepStarted ELSE probe.Type,
                      probeData(probe))

\* decodeEventFromProbe(probe): [val, err]
decodeEventFromProbe(probe) == decodeEventSwitch(probe.Type, probeData(probe))

\* One case of the message role switch: `return &msg, msg.Validate()`.
decodeMessageCase(variant, data, full) ==
    Only({IF ~f.ok
          THEN [val |-> Nil, err |-> Wrap(ErrUnmarshalFailed, <<variant, JSONError(data)>>)]
          ELSE [val |-> f.v, err |-> Message_Validate(f.v)] : f \in {full}})

\* The switch on probe.Role.
decodeMessageSwitch(role, data) ==
    CASE role = RoleDeveloper ->
            decodeMessageCase("DeveloperMessage", data, Unmarshal(data, "DeveloperMessage"))
      [] role = RoleSystem ->
            decodeMessageCase("SystemMessage", data, Unmarshal(data, "SystemMessage"))
      [] role = RoleAssistant ->
            decodeMessageCase("AssistantMessage", data, Unmarshal(data, "AssistantMessage"))
      [] role = RoleUser ->
            decodeMessageCase("UserMessage", data, Unmarshal(data, "UserMessage"))
      [] role = RoleTool ->
            decodeMessageCase("ToolMessage", data, Unmarshal(data, "ToolMessage"))
      [] OTHER -> [val |-> Nil, err |-> Wrap(ErrInvalidMessageType, <<"unknown message role", role>>)]

\* decodeMessageFromProbe(probe): [val, err]
decodeMessageFromProbe(probe) == decodeMessageSwitch(probe.Role, probeData(probe))

\* The probe filled by json.Unmarshal, with probe.RawData = data.
WithRawData(p, data) == [n \in DOMAIN p \cup {"RawData"} |-> IF n = "RawData" THEN data ELSE p[n]]

\* After json.Unmarshal(data, &probe) gave probed: a failed probe is wrapped in
\* ErrUnmarshalFailed, else the probe goes to decodeEventFromProbe with rawData
\* as its RawData.
eventFromProbed(data, probed, rawData) ==
    Only({IF ~p.ok
          THEN [val |-> Nil, err |-> Wrap(ErrUnmarshalFailed, <<JSONError(data)>>)]
          ELSE decodeEventFromProbe(WithRawData(p.v, rawData)) : p \in {probed}})

\* The same for a message probe.
messageFromProbed(data, probed, rawData) ==
    Only({IF ~p.ok
          THEN [val |-> Nil, err |-> Wrap(ErrUnmarshalFailed, <<JSONError(data)>>)]
          ELSE decodeMessageFromProbe(WithRawData(p.v, rawData)) : p \in {probed}})

\* DecodeEventFromBytes(data): [val, err]
DecodeEventFromBytes(data) ==
    eventFromProbed(data, Unmarshal(data, "EventProbe"), data)

\* DecodeMessageFromBytes without probe.RawData = data: the probe is re-marshalled.
DecodeMessageFromBytes_NoRawData(data) ==
    messageFromProbed(data, Unmarshal(data, "MessageProbe"), NilBytes)

\* DecodeMessageFromBytes(data): [val, err]
DecodeMessageFromBytes(data) ==
    messageFromProbed(data, Unmarshal(data, "MessageProbe"), data)

\* ------------------------------------------------------- input domains
\* Small value sets from which the Go values and the byte inputs are drawn:
\* every string field empty or not, the timestamp absent or present, every
\* header discriminator right, wrong-but-recognized, or unrecognized.
StrDom == {"", "a"}

IdDom == {"", "m1"}

TsDom == {NilPtr, Ptr(1234)}

RawEventDom == {JNull, JStr("raw")}

PayloadDom == {JNull, JObj([key |-> JStr("value")]), JUnsupported}

DeltaDom == {NilSlice, Slice(<<>>), Slice(<<JObj([op |-> JStr("replace")])>>)}

RoleDom == {"", RoleAssistant, RoleTool, "bogus"}

FunctionCallDom == [variant: {"FunctionCall"}, Name: {"", "x"}, Arguments: {"", "{bad json}", "{\"k\":1}"}]

ToolCallDom == [variant: {"ToolCall"}, ID: {"", "tc1"}, Type: {ToolCallTypeFunction, "bogus"}, Function: FunctionCallDom]

ValidToolCall ==
    [variant |-> "ToolCall", ID |-> "tc1", Type |-> ToolCallTypeFunction,
     Function |-> [variant |-> "FunctionCall", Name |-> "x", Arguments |-> "{\"k\":1}"]]

ToolCallsDom ==
    {NilSlice, Slice(<<>>)} \cup {Slice(<<t>>) : t \in ToolCallDom}
    \cup {Slice(<<ValidToolCall, t>>) : t \in ToolCallDom}

MessageValues ==
    [variant: {"DeveloperMessage"}, ID: IdDom, Role: {RoleDeveloper, RoleSystem, "bogus"}, Name: StrDom, Content: StrDom]
    \cup [variant: {"SystemMessage"}, ID: IdDom, Role: {RoleSystem, RoleDeveloper, "bogus"}, Name: StrDom, Content: StrDom]
    \cup [variant: {"AssistantMessage"}, ID: IdDom, Role: {RoleAssistant, RoleUser, "bogus"}, Name: StrDom, Content: StrDom, ToolCalls: ToolCallsDom]
    \cup [variant: {"UserMessage"}, ID: IdDom, Role: {RoleUser, RoleAssistant, "bogus"}, Name: StrDom, Content: StrDom]
    \cup [variant: {"ToolMessage"}, ID: IdDom, Role: {RoleTool, RoleAssistant, "bogus"}, Name: StrDom, Content: StrDom, ToolCallID: StrDom, Error: StrDom]

SnapshotMessages ==
    { [variant |-> "UserMessage", ID |-> "m1", Role |-> RoleUser, Name |-> "", Content |-> "a"],
      [variant |-> "UserMessage", ID |-> "m1", Role |-> RoleUser, Name |-> "", Content |-> ""],
      [variant |-> "AssistantMessage", ID |-> "m1", Role |-> RoleAssistant, Name |-> "a", Content |-> "",
       ToolCalls |-> Slice(<<ValidToolCall>>)] }

MessagesDom ==
    {NilSlice, Slice(<<>>)} \cup {Slice(<<m>>) : m \in SnapshotMessages}
    \cup {Slice(<<m, n>>) : m \in SnapshotMessages, n \in SnapshotMessages}

EventValues ==
    [variant: {"RunStartedEvent"}, Type: {EventTypeRunStarted, EventTypeRunFinished, "NOT_A_TYPE"}, Timestamp: TsDom, RawEvent: RawEventDom, ThreadID: StrDom, RunID: StrDom]
    \cup [variant: {"RunFinishedEvent"}, Type: {EventTypeRunFinished, EventTypeRunStarted, "NOT_A_TYPE"}, Timestamp: TsDom, RawEvent: RawEventDom, ThreadID: StrDom, RunID: StrDom, Result: PayloadDom]
    \cup [variant: {"RunErrorEvent"}, Type: {EventTypeRunError, EventTypeRunStarted, "NOT_A_TYPE"}, Timestamp: TsDom, RawEvent: RawEventDom, Message: StrDom, Code: StrDom]
    \cup [variant: {"StepStartedEvent"}, Type: {EventTypeStepStarted, EventTypeStepFinished, "NOT_A_TYPE"}, Timestamp: TsDom, RawEvent: RawEventDom, StepName: StrDom]
    \cup [variant: {"StepFinishedEvent"}, Type: {EventTypeStepFinished, EventTypeStepStarted, "NOT_A_TYPE"}, Timestamp: TsDom, RawEvent: RawEventDom, StepName: StrDom]
    \cup [variant: {"TextMessageStartEvent"}, Type: {EventTypeTextMessageStart, EventTypeTextMessageEnd, "NOT_A_TYPE"}, Timestamp: TsDom, RawEvent: RawEventDom, MessageID: StrDom, Role: RoleDom]
    \cup [variant: {"TextMessageContentEvent"}, Type: {EventTypeTextMessageContent, EventTypeToolCallArgs, "NOT_A_TYPE"}, Timestamp: TsDom, RawEvent: RawEventDom, MessageID: StrDom, Delta: StrDom]
    \cup [variant: {"TextMessageEndEvent"}, Type: {EventTypeTextMessageEnd, EventTypeTextMessageStart, "NOT_A_TYPE"}, Timestamp: TsDom, RawEvent: RawEventDom, MessageID: StrDom]
    \cup [variant: {"ToolCallStartEvent"}, Type: {EventTypeToolCallStart, EventTypeToolCallEnd, "NOT_A_TYPE"}, Timestamp: TsDom, RawEvent: RawEventDom, ToolCallID: StrDom, ToolCallName: StrDom, ParentMessageID: StrDom]
    \cup [variant: {"ToolCallArgsEvent"}, Type: {EventTypeToolCallArgs, EventTypeTextMessageContent, "NOT_A_TYPE"}, Timestamp: TsDom, RawEvent: RawEventDom, ToolCallID: StrDom, Delta: StrDom]
    \cup [variant: {"ToolCallEndEvent"}, Type: {EventTypeToolCallEnd, EventTypeToolCallStart, "NOT_A_TYPE"}, Timestamp: TsDom, RawEvent: RawEventDom, ToolCallID: StrDom]
    \cup [variant: {"ToolCallResultEvent"}, Type: {EventTypeToolCallResult, EventTypeToolCallEnd, "NOT_A_TYPE"}, Timestamp: TsDom, RawEvent: RawEventDom, MessageID: StrDom, ToolCallID: StrDom, Content: StrDom, Role: RoleDom]
    \cup [variant: {"StateSnapshotEvent"}, Type: {EventTypeStateSnapshot, EventTypeStateDelta, "NOT_A_TYPE"}, Timestamp: TsDom, RawEvent: RawEventDom, Snapshot: PayloadDom]
    \cup [variant: {"StateDeltaEvent"}, Type: {EventTypeStateDelta, EventTypeStateSnapshot, "NOT_A_TYPE"}, Timestamp: TsDom, RawEvent: RawEventDom, Delta: DeltaDom]
    \cup [variant: {"MessagesSnapshotEvent"}, Type: {EventTypeMessagesSnapshot, EventTypeStateSnapshot, "NOT_A_TYPE"}, Timestamp: TsDom, RawEvent: RawEventDom, Messages: MessagesDom]
    \cup [variant: {"RawEvent"}, Type: {EventTypeRaw, EventTypeCustom, "NOT_A_TYPE"}, Timestamp: TsDom, RawEvent: RawEventDom, Event: PayloadDom, Source: StrDom]
    \cup [variant: {"CustomEvent"}, Type: {EventTypeCustom, EventTypeRaw, "NOT_A_TYPE"}, Timestamp: TsDom, RawEvent: RawEventDom, Name: StrDom, Value: PayloadDom]

IsEvent(v) ==
    v.variant \in {"RunStartedEvent", "RunFinishedEvent", "RunErrorEvent", "StepStartedEvent",
                   "StepFinishedEvent", "TextMessageStartEvent", "TextMessageContentEvent",
                   "TextMessageEndEvent", "ToolCallStartEvent", "ToolCallArgsEvent",
                   "ToolCallEndEvent", "ToolCallResultEvent", "StateSnapshotEvent",
                   "StateDeltaEvent", "MessagesSnapshotEvent", "RawEvent", "CustomEvent"}

IsMessage(v) == v.variant \in {"DeveloperMessage", "SystemMessage", "AssistantMessage", "UserMessage", "ToolMessage"}

\* validator.Validate() of a value held in an interface
Validate(v) == IF IsMessage(v) THEN Message_Validate(v) ELSE Event_Validate(v)

\* Byte inputs: what json.Marshal emits for the values above (valid or not),
\* those objects with one key removed or replaced by a value of another JSON
\* type, objects with an unrecognized discriminator and one further badly
\* typed header key, JSON values that are not objects, and text that is not JSON.
SetKey(o, key, j) == JObj([x \in DOMAIN o.f \cup {key} |-> IF x = key THEN j ELSE o.f[x]])

RemoveKey(o, key) == JObj([x \in DOMAIN o.f \ {key} |-> o.f[x]])

WireObjects == {Marshal(v).data.j : v \in {w \in EventValues \cup MessageValues : Marshal(w).ok}}

ValidWireObjects ==
    {Marshal(v).data.j : v \in {w \in EventValues \cup MessageValues : Validate(w) = NoErr /\ Marshal(w).ok}}

Replacements == {JNum(7), JStr("NOT_A_TYPE"), JNull, JArr(<<>>), JArr(<<JNum(7)>>)}

HeaderKeys == {"type", "timestamp", "rawEvent", "role", "id", "name"}

Mutate(o) ==
    {SetKey(o, key, j) : key \in DOMAIN o.f \cup HeaderKeys, j \in Replacements}
    \cup {RemoveKey(o, key) : key \in DOMAIN o.f}

UnknownDiscriminator ==
    {SetKey(SetKey(SetKey(o, "type", JStr("NOT_A_TYPE")), "role", JStr("nobody")), key, j) :
        o \in ValidWireObjects, key \in HeaderKeys \ {"type", "role"}, j \in Replacements \cup {JStr("soon")}}

InputBytes ==
    {Bytes(o) : o \in WireObjects \cup UNION {Mutate(o) : o \in ValidWireObjects} \cup UnknownDiscriminator}
    \cup {Bytes(JNull), Bytes(JNum(7)), Bytes(JStr("a")), Bytes(JArr(<<>>)), Bytes(JObj(<<>>))}
    \cup {BadBytes("syntax"), BadBytes("truncated")}

\* ------------------------------------------------------------ the state
VARIABLES
    value,      \* the Go value the caller holds (Nil when it starts from bytes)
    data,       \* the bytes the caller holds (NilBytes when none)
    ret,        \* what the last call returned: [op, val, data, err]
    writer,     \* the Write calls the Encoder's io.Writer has received
    mode,       \* StreamDecoder method running: "events", "messages", "" for none
    source,     \* the reader's content: the successive values of the stream
    pos,        \* json.Decoder: index of the next value to read
    pc,         \* where the producer goroutine stands
    pending,    \* the goroutine's local result: [val, err]
    valueChan,  \* eventChan / messageChan (buffer contents, oldest first)
    errorChan,  \* errorChan (buffer contents)
    valueClosed,
    errorClosed,
    sentVals,   \* history: every value sent on the value channel, in order
    sentErrs,   \* history: every error sent on the error channel
    recvVals,   \* the consumer: values received, in order
    recvErrs,   \* the consumer: errors received
    got         \* the consumers: the values each one has received, in order

codecVars == <<value, data, ret, writer>>

streamVars == <<mode, source, pos, pc, pending, valueChan, errorChan, valueClosed,
                errorClosed, sentVals, sentErrs, recvVals, recvErrs, got>>

vars == <<value, data, ret, writer, mode, source, pos, pc, pending, valueChan, errorChan,
          valueClosed, errorClosed, sentVals, sentErrs, recvVals, recvErrs, got>>

NoResult == [val |-> Nil, err |-> NoErr]

\* The goroutines receiving from the channels of one StreamDecoder run.
NumConsumers == 2

Consumers == 1..NumConsumers

NothingReceived == [c \in Consumers |-> <<>>]

\* No StreamDecoder method has been called.
StreamIdle ==
    /\ mode = "" /\ source = <<>> /\ pos = 1 /\ pc = "idle" /\ pending = NoResult
    /\ valueChan = <<>> /\ errorChan = <<>> /\ valueClosed = FALSE /\ errorClosed = FALSE
    /\ sentVals = <<>> /\ sentErrs = <<>> /\ recvVals = <<>> /\ recvErrs = <<>>
    /\ got = NothingReceived

NoRet == [op |-> "none", val |-> Nil, data |-> NilBytes, err |-> NoErr]

CodecInit ==
    /\ \/ value \in EventValues \cup MessageValues /\ data = NilBytes
       \/ value = Nil /\ data \in InputBytes
    /\ ret = NoRet
    /\ writer = <<>>
    /\ StreamIdle

\* data, err := EncodeEvent(value)
EncodeEventCall ==
    /\ ret.op = "none" /\ IsEvent(value)
    /\ \E r \in {EncodeEvent(value)} :
         /\ ret' = [op |-> "EncodeEvent", val |-> Nil, data |-> r.data, err |-> r.err]
         /\ data' = r.data
    /\ UNCHANGED <<value, writer>>
    /\ UNCHANGED streamVars

\* data, err := EncodeMessage(value)
EncodeMessageCall ==
    /\ ret.op = "none" /\ IsMessage(value)
    /\ \E r \in {EncodeMessage(value)} :
         /\ ret' = [op |-> "EncodeMessage", val |-> Nil, data |-> r.data, err |-> r.err]
         /\ data' = r.data
    /\ UNCHANGED <<value, writer>>
    /\ UNCHANGED streamVars

\* err := NewEncoder(w).Encode(value); the writer accepts or rejects the Write
Encoder_Encode ==
    /\ ret.op = "none" /\ value # Nil
    /\ \E r \in {encodeResult(Validate(value), Marshal(value))} :
       IF r.err # NoErr
       THEN /\ ret' = [op |-> "Encoder.Encode", val |-> Nil, data |-> NilBytes, err |-> r.err]
            /\ writer' = writer
       ELSE /\ writer' = Append(writer, r.data)
            /\ \E writeOk \in BOOLEAN :
                 ret' = [op |-> "Encoder.Encode", val |-> Nil, data |-> NilBytes,
                         err |-> IF writeOk THEN NoErr
                                 ELSE Plain(<<"agui: failed to write encoded data">>)]
    /\ UNCHANGED <<value, data>>
    /\ UNCHANGED streamVars

\* val, err := DecodeEventFromBytes(data)
DecodeEventFromBytesCall ==
    /\ ret.op \in {"none", "EncodeEvent", "EncodeMessage"} /\ data # NilBytes
    /\ \E r \in {DecodeEventFromBytes(data)} :
         ret' = [op |-> "DecodeEventFromBytes", val |-> r.val, data |-> NilBytes, err |-> r.err]
    /\ UNCHANGED <<value, data, writer>>
    /\ UNCHANGED streamVars

\* val, err := DecodeMessageFromBytes(data)
DecodeMessageFromBytesCall ==
    /\ ret.op \in {"none", "EncodeEvent", "EncodeMessage"} /\ data # NilBytes
    /\ \E r \in {DecodeMessageFromBytes(data)} :
         ret' = [op |-> "DecodeMessageFromBytes", val |-> r.val, data |-> NilBytes, err |-> r.err]
    /\ UNCHANGED <<value, data, writer>>
    /\ UNCHANGED streamVars

\* value.SetTimestamp(), as the New*Event factories call it on the event they build
SetTimestampCall ==
    /\ ret.op = "none" /\ IsEvent(value)
    /\ \E now \in {1234, 5678} : value' = SetTimestamp(value, now)
    /\ UNCHANGED <<data, ret, writer>>
    /\ UNCHANGED streamVars

CodecNext ==
    \/ SetTimestampCall
    \/ EncodeEventCall
    \/ EncodeMessageCall
    \/ Encoder_Encode
    \/ DecodeEventFromBytesCall
    \/ DecodeMessageFromBytesCall

SpecCodec == CodecInit /\ [][CodecNext]_vars

\* ------------------------------------------------------- StreamDecoder
\* make(chan Event, 10) and make(chan error, 1)
ValueChanCap == 10

ErrorChanCap == 1

\* A decode error wrapped once more in ErrUnmarshalFailed.
rewrapped(r) ==
    IF r.err # NoErr THEN [val |-> r.val, err |-> Wrap(ErrUnmarshalFailed, r.err.msg)] ELSE r

\* The loop body wrapping the decode error again before sending it.
StreamDecode_Rewrap(m, rawData) ==
    rewrapped(IF m = "events"
              THEN eventFromProbed(rawData, Unmarshal(rawData, "EventProbe"), rawData)
              ELSE messageFromProbed(rawData, Unmarshal(rawData, "MessageProbe"), rawData))

\* One iteration of the goroutine's loop on the value just read: the probe
\* parse, probe.RawData = rawData, then decodeEventFromProbe /
\* decodeMessageFromProbe: [val, err].
StreamDecode(m, rawData) ==
    IF m = "events"
    THEN eventFromProbed(rawData, Unmarshal(rawData, "EventProbe"), rawData)
    ELSE messageFromProbed(rawData, Unmarshal(rawData, "MessageProbe"), rawData)

\* The values a stream is made of: encodings of valid events (one of them a
\* MessagesSnapshot holding a message), an event that fails validation, an
\* unrecognized discriminator, a badly typed field, and text that is not JSON.
StreamEvents ==
    << [variant |-> "RunStartedEvent", Type |-> EventTypeRunStarted, Timestamp |-> Ptr(1234),
        RawEvent |-> JNull, ThreadID |-> "a", RunID |-> "a"],
       [variant |-> "TextMessageContentEvent", Type |-> EventTypeTextMessageContent,
        Timestamp |-> NilPtr, RawEvent |-> JNull, MessageID |-> "a", Delta |-> "a"],
       [variant |-> "MessagesSnapshotEvent", Type |-> EventTypeMessagesSnapshot,
        Timestamp |-> NilPtr, RawEvent |-> JNull,
        Messages |-> Slice(<<[variant |-> "UserMessage", ID |-> "m1", Role |-> RoleUser,
                              Name |-> "", Content |-> "a"]>>)] >>

StreamMessages ==
    << [variant |-> "UserMessage", ID |-> "m1", Role |-> RoleUser, Name |-> "", Content |-> "a"],
       [variant |-> "AssistantMessage", ID |-> "m1", Role |-> RoleAssistant, Name |-> "a",
        Content |-> "", ToolCalls |-> Slice(<<ValidToolCall>>)] >>

EventStreamValues ==
    {Marshal(StreamEvents[i]).data : i \in DOMAIN StreamEvents}
    \cup { Bytes(JObj([type |-> JStr(EventTypeTextMessageContent), messageId |-> JStr("a"),
                       delta |-> JStr("")])),
           Bytes(JObj([type |-> JStr("NOT_A_TYPE")])),
           Bytes(JObj([type |-> JStr(EventTypeRunStarted), threadId |-> JNum(7),
                       runId |-> JStr("a")])),
           BadBytes("syntax") }

MessageStreamValues ==
    {Marshal(StreamMessages[i]).data : i \in DOMAIN StreamMessages}
    \cup { Bytes(JObj([id |-> JStr("m1"), role |-> JStr(RoleUser), content |-> JStr("")])),
           Bytes(JObj([id |-> JStr("m1"), role |-> JStr("nobody")])),
           Bytes(JObj([id |-> JNum(7), role |-> JStr(RoleUser), content |-> JStr("a")])),
           BadBytes("syntax") }

\* Sequences of at most n elements of S.
SeqsUpTo(S, n) == UNION {[1..len -> S] : len \in 0..n}

\* Sources: up to MaxLen values, the last one possibly cut short by the end of input.
Sources(S) ==
    SeqsUpTo(S, MaxLen)
    \cup {Append(q, BadBytes("truncated")) : q \in SeqsUpTo(S, MaxLen - 1)}

\* A source of LongLen copies of one valid value: more than the value channel
\* can buffer.
LongLen == 11

LongSource(v) == [i \in 1..LongLen |-> v]

\* NewStreamDecoder(r).DecodeEvents() or .DecodeMessages() has just returned:
\* both channels exist and the goroutine is about to start its loop.
StreamInit ==
    /\ value = Nil /\ data = NilBytes /\ ret = NoRet /\ writer = <<>>
    /\ \/ mode = "events" /\ source \in Sources(EventStreamValues)
       \/ mode = "messages" /\ source \in Sources(MessageStreamValues)
       \/ mode = "events" /\ source = LongSource(Marshal(StreamEvents[1]).data)
       \/ mode = "messages" /\ source = LongSource(Marshal(StreamMessages[1]).data)
    /\ pos = 1 /\ pc = "read" /\ pending = NoResult
    /\ valueChan = <<>> /\ errorChan = <<>> /\ valueClosed = FALSE /\ errorClosed = FALSE
    /\ sentVals = <<>> /\ sentErrs = <<>> /\ recvVals = <<>> /\ recvErrs = <<>>
    /\ got = NothingReceived

\* The loop does not return at io.EOF: it reads again.
StreamRead_NoEOF ==
    /\ pc = "read"
    /\ IF pos > Len(source)
       THEN /\ pc' = "read"
            /\ UNCHANGED <<pos, pending>>
       ELSE IF ~source[pos].wf
       THEN /\ pending' = [val |-> Nil,
                           err |-> Wrap(ErrUnmarshalFailed, <<JSONError(source[pos])>>)]
            /\ pc' = "sendError"
            /\ UNCHANGED pos
       ELSE \E r \in {StreamDecode(mode, source[pos])} :
            /\ pos' = pos + 1
            /\ pending' = r
            /\ pc' = IF r.err # NoErr THEN "sendError" ELSE "sendValue"
    /\ UNCHANGED <<mode, source, valueChan, errorChan, valueClosed, errorClosed,
                   sentVals, sentErrs, recvVals, recvErrs, got>>
    /\ UNCHANGED codecVars

\* The loop sends whatever value the decode returned, failed validation or not.
StreamRead_IgnoreError ==
    /\ pc = "read"
    /\ IF pos > Len(source)
       THEN /\ pc' = "closeError"
            /\ UNCHANGED <<pos, pending>>
       ELSE IF ~source[pos].wf
       THEN /\ pending' = [val |-> Nil,
                           err |-> Wrap(ErrUnmarshalFailed, <<JSONError(source[pos])>>)]
            /\ pc' = "sendError"
            /\ UNCHANGED pos
       ELSE \E r \in {StreamDecode(mode, source[pos])} :
            /\ pos' = pos + 1
            /\ pending' = r
            /\ pc' = IF r.val = Nil THEN "sendError" ELSE "sendValue"
    /\ UNCHANGED <<mode, source, valueChan, errorChan, valueClosed, errorClosed,
                   sentVals, sentErrs, recvVals, recvErrs, got>>
    /\ UNCHANGED codecVars

\* s.decoder.Decode(&rawData), the probe parse and the decode of one value.
\* io.EOF ends the loop; any other error is kept to be sent.
StreamRead ==
    /\ pc = "read"
    /\ IF pos > Len(source)
       THEN /\ pc' = "closeError"
            /\ UNCHANGED <<pos, pending>>
       ELSE IF ~source[pos].wf
       THEN /\ pending' = [val |-> Nil,
                           err |-> Wrap(ErrUnmarshalFailed, <<JSONError(source[pos])>>)]
            /\ pc' = "sendError"
            /\ UNCHANGED pos
       ELSE \E r \in {StreamDecode(mode, source[pos])} :
            /\ pos' = pos + 1
            /\ pending' = r
            /\ pc' = IF r.err # NoErr THEN "sendError" ELSE "sendValue"
    /\ UNCHANGED <<mode, source, valueChan, errorChan, valueClosed, errorClosed,
                   sentVals, sentErrs, recvVals, recvErrs, got>>
    /\ UNCHANGED codecVars

\* The error is sent and the loop goes on with the next value.
StreamSendError_Resume ==
    /\ pc = "sendError"
    /\ Len(errorChan) < ErrorChanCap
    /\ errorChan' = Append(errorChan, pending.err)
    /\ sentErrs' = Append(sentErrs, pending.err)
    /\ pc' = "read"
    /\ UNCHANGED <<mode, source, pos, pending, valueChan, valueClosed, errorClosed,
                   sentVals, recvVals, recvErrs, got>>
    /\ UNCHANGED codecVars

\* The error channel has no buffer: the send needs room it never has.
StreamSendError_Unbuffered ==
    /\ pc = "sendError"
    /\ Len(errorChan) < ErrorChanCap - 1
    /\ errorChan' = Append(errorChan, pending.err)
    /\ sentErrs' = Append(sentErrs, pending.err)
    /\ pc' = "closeError"
    /\ UNCHANGED <<mode, source, pos, pending, valueChan, valueClosed, errorClosed,
                   sentVals, recvVals, recvErrs, got>>
    /\ UNCHANGED codecVars

\* errorChan <- err; return
StreamSendError ==
    /\ pc = "sendError"
    /\ Len(errorChan) < ErrorChanCap
    /\ errorChan' = Append(errorChan, pending.err)
    /\ sentErrs' = Append(sentErrs, pending.err)
    /\ pc' = "closeError"
    /\ UNCHANGED <<mode, source, pos, pending, valueChan, valueClosed, errorClosed,
                   sentVals, recvVals, recvErrs, got>>
    /\ UNCHANGED codecVars

\* A send that never blocks: the channel buffers without bound.
StreamSendValue_Unbounded ==
    /\ pc = "sendValue"
    /\ valueChan' = Append(valueChan, pending.val)
    /\ sentVals' = Append(sentVals, pending.val)
    /\ pc' = "read"
    /\ UNCHANGED <<mode, source, pos, pending, errorChan, valueClosed, errorClosed,
                   sentErrs, recvVals, recvErrs, got>>
    /\ UNCHANGED codecVars

\* eventChan <- event: blocks while the buffer is full
StreamSendValue ==
    /\ pc = "sendValue"
    /\ Len(valueChan) < ValueChanCap
    /\ valueChan' = Append(valueChan, pending.val)
    /\ sentVals' = Append(sentVals, pending.val)
    /\ pc' = "read"
    /\ UNCHANGED <<mode, source, pos, pending, errorChan, valueClosed, errorClosed,
                   sentErrs, recvVals, recvErrs, got>>
    /\ UNCHANGED codecVars

\* The deferred calls run in the order they were written: the value channel
\* is closed where the error channel should be.
StreamCloseError_ValueFirst ==
    /\ pc = "closeError"
    /\ valueClosed' = TRUE
    /\ pc' = "closeValue"
    /\ UNCHANGED <<mode, source, pos, pending, valueChan, errorChan, errorClosed,
                   sentVals, sentErrs, recvVals, recvErrs, got>>
    /\ UNCHANGED codecVars

\* defer close(errorChan): the last deferred call runs first
StreamCloseError ==
    /\ pc = "closeError"
    /\ errorClosed' = TRUE
    /\ pc' = "closeValue"
    /\ UNCHANGED <<mode, source, pos, pending, valueChan, errorChan, valueClosed,
                   sentVals, sentErrs, recvVals, recvErrs, got>>
    /\ UNCHANGED codecVars

\* The goroutine returns without closing the value channel.
StreamCloseValue_Forgotten ==
    /\ pc = "closeValue"
    /\ valueClosed' = valueClosed
    /\ pc' = "done"
    /\ UNCHANGED <<mode, source, pos, pending, valueChan, errorChan, errorClosed,
                   sentVals, sentErrs, recvVals, recvErrs, got>>
    /\ UNCHANGED codecVars

\* defer close(eventChan)
StreamCloseValue ==
    /\ pc = "closeValue"
    /\ valueClosed' = TRUE
    /\ pc' = "done"
    /\ UNCHANGED <<mode, source, pos, pending, valueChan, errorChan, errorClosed,
                   sentVals, sentErrs, recvVals, recvErrs, got>>
    /\ UNCHANGED codecVars

\* A receive that leaves the element in the channel.
ReceiveValue_Peek ==
    /\ mode # ""
    /\ valueChan # <<>>
    /\ \E c \in Consumers : got' = [got EXCEPT ![c] = Append(@, Head(valueChan))]
    /\ recvVals' = Append(recvVals, Head(valueChan))
    /\ valueChan' = valueChan
    /\ UNCHANGED <<mode, source, pos, pc, pending, errorChan, valueClosed, errorClosed,
                   sentVals, sentErrs, recvErrs>>
    /\ UNCHANGED codecVars

\* a consumer: case event, ok := <-eventChan with a buffered value.  The
\* channel hands its oldest element to the one goroutine that receives.
ReceiveValue ==
    /\ mode # ""
    /\ valueChan # <<>>
    /\ \E c \in Consumers : got' = [got EXCEPT ![c] = Append(@, Head(valueChan))]
    /\ recvVals' = Append(recvVals, Head(valueChan))
    /\ valueChan' = Tail(valueChan)
    /\ UNCHANGED <<mode, source, pos, pc, pending, errorChan, valueClosed, errorClosed,
                   sentVals, sentErrs, recvErrs>>
    /\ UNCHANGED codecVars

\* the consumer: case err := <-errorChan with a buffered error
ReceiveError ==
    /\ mode # ""
    /\ errorChan # <<>>
    /\ recvErrs' = Append(recvErrs, Head(errorChan))
    /\ errorChan' = Tail(errorChan)
    /\ UNCHANGED <<mode, source, pos, pc, pending, valueChan, valueClosed, errorClosed,
                   sentVals, sentErrs, recvVals, got>>
    /\ UNCHANGED codecVars

StreamNext ==
    \/ StreamRead
    \/ StreamSendError
    \/ StreamSendValue
    \/ StreamCloseError
    \/ StreamCloseValue
    \/ ReceiveValue
    \/ ReceiveError

SpecStream == StreamInit /\ [][StreamNext]_vars

\* The producer goroutine, once started, keeps being scheduled while it can
\* take a step, and the consumers keep receiving from the value channel.
Producer ==
    StreamRead \/ StreamSendError \/ StreamSendValue \/ StreamCloseError \/ StreamCloseValue

SpecStreamFair ==
    StreamInit /\ [][StreamNext]_vars /\ WF_vars(Producer) /\ WF_vars(ReceiveValue)

\* The producer goroutine keeps being scheduled while it can take a step;
\* nothing is assumed of the consumers, which may never receive.
SpecStreamProducerFair == StreamInit /\ [][StreamNext]_vars /\ WF_vars(Producer)

\* ------------------------------------------------------- Validate calls
\* Values on which a caller invokes Validate directly.
ArgumentsDom == {"", "{bad json}", "{\"k\":1}", "null", "[1]"}

FunctionCallValues == [variant: {"FunctionCall"}, Name: {"", "x"}, Arguments: ArgumentsDom]

ToolCallValues ==
    [variant: {"ToolCall"}, ID: {"", "tc1"}, Type: {ToolCallTypeFunction, "", "bogus"},
     Function: FunctionCallValues]

ToolValues ==
    [variant: {"Tool"}, Name: {"search"}, Description: {"Search tool"},
     Parameters: {JObj([type |-> JStr("object")]), JNull}]
    \cup {[variant |-> "Tool", Name |-> "", Description |-> "Search tool", Parameters |-> JNull],
          [variant |-> "Tool", Name |-> "search", Description |-> "", Parameters |-> JNull]}

ContextValues == [variant: {"Context"}, Description: StrDom, Value: StrDom]

InputMessages ==
    { [variant |-> "UserMessage", ID |-> "m1", Role |-> RoleUser, Name |-> "", Content |-> "a"],
      [variant |-> "UserMessage", ID |-> "m1", Role |-> RoleUser, Name |-> "", Content |-> ""] }

InputContexts ==
    { [variant |-> "Context", Description |-> "a", Value |-> "a"],
      [variant |-> "Context", Description |-> "a", Value |-> ""] }

\* A slice field: nil, or a slice of at most n elements of S.
Slices(S, n) == {NilSlice} \cup {Slice(q) : q \in SeqsUpTo(S, n)}

RunAgentInputValues ==
    [variant: {"RunAgentInput"}, ThreadID: StrDom, RunID: StrDom, State: {JNull},
     Messages: Slices(InputMessages, 2), Tools: Slices(ToolValues, MaxLen),
     Context: Slices(InputContexts, 2), ForwardedProps: {JNull}]

ValidateInit ==
    /\ value \in EventValues \cup MessageValues \cup FunctionCallValues \cup ToolCallValues
                 \cup ToolValues \cup ContextValues \cup RunAgentInputValues
    /\ data = NilBytes /\ ret = NoRet /\ writer = <<>>
    /\ StreamIdle

\* err := value.Validate(), value an Event
Event_ValidateCall ==
    /\ ret.op = "none" /\ IsEvent(value)
    /\ ret' = [op |-> "Event.Validate", val |-> Nil, data |-> NilBytes, err |-> Event_Validate(value)]
    /\ UNCHANGED <<value, data, writer>>
    /\ UNCHANGED streamVars

\* err := value.Validate(), value a Message
Message_ValidateCall ==
    /\ ret.op = "none" /\ IsMessage(value)
    /\ ret' = [op |-> "Message.Validate", val |-> Nil, data |-> NilBytes, err |-> Message_Validate(value)]
    /\ UNCHANGED <<value, data, writer>>
    /\ UNCHANGED streamVars

\* err := value.Validate(), value a *FunctionCall
FunctionCall_ValidateCall ==
    /\ ret.op = "none" /\ value.variant = "FunctionCall"
    /\ ret' = [op |-> "FunctionCall.Validate", val |-> Nil, data |-> NilBytes, err |-> FunctionCall_Validate(value)]
    /\ UNCHANGED <<value, data, writer>>
    /\ UNCHANGED streamVars

\* err := value.Validate(), value a *ToolCall
ToolCall_ValidateCall ==
    /\ ret.op = "none" /\ value.variant = "ToolCall"
    /\ ret' = [op |-> "ToolCall.Validate", val |-> Nil, data |-> NilBytes, err |-> ToolCall_Validate(value)]
    /\ UNCHANGED <<value, data, writer>>
    /\ UNCHANGED streamVars

\* err := value.Validate(), value a *Tool
Tool_ValidateCall ==
    /\ ret.op = "none" /\ value.variant = "Tool"
    /\ ret' = [op |-> "Tool.Validate", val |-> Nil, data |-> NilBytes, err |-> Tool_Validate(value)]
    /\ UNCHANGED <<value, data, writer>>
    /\ UNCHANGED streamVars

\* err := value.Validate(), value a *Context
Context_ValidateCall ==
    /\ ret.op = "none" /\ value.variant = "Context"
    /\ ret' = [op |-> "Context.Validate", val |-> Nil, data |-> NilBytes, err |-> Context_Validate(value)]
    /\ UNCHANGED <<value, data, writer>>
    /\ UNCHANGED streamVars

\* err := value.Validate(), value a *RunAgentInput
RunAgentInput_ValidateCall ==
    /\ ret.op = "none" /\ value.variant = "RunAgentInput"
    /\ ret' = [op |-> "RunAgentInput.Validate", val |-> Nil, data |-> NilBytes, err |-> RunAgentInput_Validate(value)]
    /\ UNCHANGED <<value, data, writer>>
    /\ UNCHANGED streamVars

ValidateNext ==
    \/ Event_ValidateCall
    \/ Message_ValidateCall
    \/ FunctionCall_ValidateCall
    \/ ToolCall_ValidateCall
    \/ Tool_ValidateCall
    \/ Context_ValidateCall
    \/ RunAgentInput_ValidateCall

SpecValidate == ValidateInit /\ [][ValidateNext]_vars

\* ------------------------------------------------- helpers.go: the factories
\* Each New*Event factory fills the header's type and the fields from its
\* arguments, leaves the rest at the zero value, then calls SetTimestamp; `now`
\* stands for the clock reading that call takes. Each New*Message factory fills
\* the role and the fields from its arguments.
\* As NewStateDeltaEvent, but the creation timestamp is left unset.
NewStateDeltaEvent_Unstamped(delta, now) ==
    [variant |-> "StateDeltaEvent", Type |-> EventTypeStateDelta, Timestamp |-> NilPtr,
     RawEvent |-> JNull, Delta |-> delta]

NewRunStartedEvent(threadID, runID, now) ==
    SetTimestamp([variant |-> "RunStartedEvent", Type |-> EventTypeRunStarted, Timestamp |-> NilPtr, RawEvent |-> JNull,
                  ThreadID |-> threadID, RunID |-> runID], now)

NewRunFinishedEvent(threadID, runID, result, now) ==
    SetTimestamp([variant |-> "RunFinishedEvent", Type |-> EventTypeRunFinished, Timestamp |-> NilPtr, RawEvent |-> JNull,
                  ThreadID |-> threadID, RunID |-> runID, Result |-> result], now)

NewRunErrorEvent(message, code, now) ==
    SetTimestamp([variant |-> "RunErrorEvent", Type |-> EventTypeRunError, Timestamp |-> NilPtr, RawEvent |-> JNull,
                  Message |-> message, Code |-> code], now)

NewStepStartedEvent(stepName, now) ==
    SetTimestamp([variant |-> "StepStartedEvent", Type |-> EventTypeStepStarted, Timestamp |-> NilPtr, RawEvent |-> JNull,
                  StepName |-> stepName], now)

NewStepFinishedEvent(stepName, now) ==
    SetTimestamp([variant |-> "StepFinishedEvent", Type |-> EventTypeStepFinished, Timestamp |-> NilPtr, RawEvent |-> JNull,
                  StepName |-> stepName], now)

NewTextMessageStartEvent(messageID, now) ==
    SetTimestamp([variant |-> "TextMessageStartEvent", Type |-> EventTypeTextMessageStart, Timestamp |-> NilPtr, RawEvent |-> JNull,
                  MessageID |-> messageID, Role |-> RoleAssistant], now)

NewTextMessageContentEvent(messageID, delta, now) ==
    SetTimestamp([variant |-> "TextMessageContentEvent", Type |-> EventTypeTextMessageContent, Timestamp |-> NilPtr, RawEvent |-> JNull,
                  MessageID |-> messageID, Delta |-> delta], now)

NewTextMessageEndEvent(messageID, now) ==
    SetTimestamp([variant |-> "TextMessageEndEvent", Type |-> EventTypeTextMessageEnd, Timestamp |-> NilPtr, RawEvent |-> JNull,
                  MessageID |-> messageID], now)

NewToolCallStartEvent(toolCallID, toolCallName, parentMessageID, now) ==
    SetTimestamp([variant |-> "ToolCallStartEvent", Type |-> EventTypeToolCallStart, Timestamp |-> NilPtr, RawEvent |-> JNull,
                  ToolCallID |-> toolCallID, ToolCallName |-> toolCallName, ParentMessageID |-> parentMessageID], now)

NewToolCallArgsEvent(toolCallID, delta, now) ==
    SetTimestamp([variant |-> "ToolCallArgsEvent", Type |-> EventTypeToolCallArgs, Timestamp |-> NilPtr, RawEvent |-> JNull,
                  ToolCallID |-> toolCallID, Delta |-> delta], now)

NewToolCallEndEvent(toolCallID, now) ==
    SetTimestamp([variant |-> "ToolCallEndEvent", Type |-> EventTypeToolCallEnd, Timestamp |-> NilPtr, RawEvent |-> JNull,
                  ToolCallID |-> toolCallID], now)

NewToolCallResultEvent(messageID, toolCallID, content, now) ==
    SetTimestamp([variant |-> "ToolCallResultEvent", Type |-> EventTypeToolCallResult, Timestamp |-> NilPtr, RawEvent |-> JNull,
                  MessageID |-> messageID, ToolCallID |-> toolCallID, Content |-> content, Role |-> RoleTool], now)

NewStateSnapshotEvent(snapshot, now) ==
    SetTimestamp([variant |-> "StateSnapshotEvent", Type |-> EventTypeStateSnapshot, Timestamp |-> NilPtr, RawEvent |-> JNull,
                  Snapshot |-> snapshot], now)

NewStateDeltaEvent(delta, now) ==
    SetTimestamp([variant |-> "StateDeltaEvent", Type |-> EventTypeStateDelta, Timestamp |-> NilPtr, RawEvent |-> JNull,
                  Delta |-> delta], now)

NewMessagesSnapshotEvent(messages, now) ==
    SetTimestamp([variant |-> "MessagesSnapshotEvent", Type |-> EventTypeMessagesSnapshot, Timestamp |-> NilPtr, RawEvent |-> JNull,
                  Messages |-> messages], now)

NewRawEvent(event, src, now) ==
    SetTimestamp([variant |-> "RawEvent", Type |-> EventTypeRaw, Timestamp |-> NilPtr, RawEvent |-> JNull,
                  Event |-> event, Source |-> src], now)

NewCustomEvent(name, val, now) ==
    SetTimestamp([variant |-> "CustomEvent", Type |-> EventTypeCustom, Timestamp |-> NilPtr, RawEvent |-> JNull,
                  Name |-> name, Value |-> val], now)

NewDeveloperMessage(id, content, name) ==
    [variant |-> "DeveloperMessage", ID |-> id, Role |-> RoleDeveloper, Name |-> name, Content |-> content]

NewSystemMessage(id, content, name) ==
    [variant |-> "SystemMessage", ID |-> id, Role |-> RoleSystem, Name |-> name, Content |-> content]

NewAssistantMessage(id, content, name, toolCalls) ==
    [variant |-> "AssistantMessage", ID |-> id, Role |-> RoleAssistant, Name |-> name, Content |-> content, ToolCalls |-> toolCalls]

NewUserMessage(id, content, name) ==
    [variant |-> "UserMessage", ID |-> id, Role |-> RoleUser, Name |-> name, Content |-> content]

NewToolMessage(id, content, toolCallID, errorMsg, name) ==
    [variant |-> "ToolMessage", ID |-> id, Role |-> RoleTool, Name |-> name, Content |-> content, ToolCallID |-> toolCallID, Error |-> errorMsg]

\* The clock readings a factory call may take.
Clock == {1234, 5678}

\* What the New*Event factories return, over the small argument sets.
FactoryEvents ==
         {NewRunStartedEvent(threadID, runID, now) : threadID \in StrDom, runID \in StrDom, now \in Clock}
    \cup {NewRunFinishedEvent(threadID, runID, result, now) : threadID \in StrDom, runID \in StrDom, result \in PayloadDom, now \in Clock}
    \cup {NewRunErrorEvent(message, code, now) : message \in StrDom, code \in StrDom, now \in Clock}
    \cup {NewStepStartedEvent(stepName, now) : stepName \in StrDom, now \in Clock}
    \cup {NewStepFinishedEvent(stepName, now) : stepName \in StrDom, now \in Clock}
    \cup {NewTextMessageStartEvent(messageID, now) : messageID \in StrDom, now \in Clock}
    \cup {NewTextMessageContentEvent(messageID, delta, now) : messageID \in StrDom, delta \in StrDom, now \in Clock}
    \cup {NewTextMessageEndEvent(messageID, now) : messageID \in StrDom, now \in Clock}
    \cup {NewToolCallStartEvent(toolCallID, toolCallName, parentMessageID, now) : toolCallID \in StrDom, toolCallName \in StrDom, parentMessageID \in StrDom, now \in Clock}
    \cup {NewToolCallArgsEvent(toolCallID, delta, now) : toolCallID \in StrDom, delta \in StrDom, now \in Clock}
    \cup {NewToolCallEndEvent(toolCallID, now) : toolCallID \in StrDom, now \in Clock}
    \cup {NewToolCallResultEvent(messageID, toolCallID, content, now) : messageID \in StrDom, toolCallID \in StrDom, content \in StrDom, now \in Clock}
    \cup {NewStateSnapshotEvent(snapshot, now) : snapshot \in PayloadDom, now \in Clock}
    \cup {NewStateDeltaEvent(delta, now) : delta \in DeltaDom, now \in Clock}
    \cup {NewMessagesSnapshotEvent(messages, now) : messages \in MessagesDom, now \in Clock}
    \cup {NewRawEvent(event, src, now) : event \in PayloadDom, src \in StrDom, now \in Clock}
    \cup {NewCustomEvent(name, val, now) : name \in StrDom, val \in PayloadDom, now \in Clock}

\* What the New*Message factories return, over the small argument sets.
FactoryMessages ==
         {NewDeveloperMessage(id, content, name) : id \in IdDom, content \in StrDom, name \in StrDom}
    \cup {NewSystemMessage(id, content, name) : id \in IdDom, content \in StrDom, name \in StrDom}
    \cup {NewAssistantMessage(id, content, name, toolCalls) : id \in IdDom, content \in StrDom, name \in StrDom, toolCalls \in ToolCallsDom}
    \cup {NewUserMessage(id, content, name) : id \in IdDom, content \in StrDom, name \in StrDom}
    \cup {NewToolMessage(id, content, toolCallID, errorMsg, name) : id \in IdDom, content \in StrDom, toolCallID \in StrDom, errorMsg \in StrDom, name \in StrDom}

FactoryInit ==
    /\ value = Nil /\ data = NilBytes /\ ret = NoRet /\ writer = <<>>
    /\ StreamIdle

\* value := New<Variant>Event(arguments)
NewEventCall ==
    /\ value = Nil
    /\ value' \in FactoryEvents
    /\ UNCHANGED <<data, ret, writer>>
    /\ UNCHANGED streamVars

\* value := New<Variant>Message(arguments)
NewMessageCall ==
    /\ value = Nil
    /\ value' \in FactoryMessages
    /\ UNCHANGED <<data, ret, writer>>
    /\ UNCHANGED streamVars

FactoryNext ==
    \/ NewEventCall
    \/ NewMessageCall
    \/ Event_ValidateCall
    \/ Message_ValidateCall

SpecFactory == FactoryInit /\ [][FactoryNext]_vars

\* ------------------------------------------------------------- Decoder
\* As Decoder.DecodeEvent, but a value whose decode fails is not consumed.
Decoder_DecodeEvent_StopsAtFailure(src, p) ==
    IF p > Len(src) THEN [val |-> Nil, err |-> EOF, pos |-> p]
    ELSE IF ~src[p].wf
    THEN [val |-> Nil, err |-> Wrap(ErrUnmarshalFailed, <<JSONError(src[p])>>), pos |-> p]
    ELSE Only({[val |-> r.val, err |-> r.err, pos |-> IF r.err # NoErr THEN p ELSE p + 1] :
                  r \in {eventFromProbed(src[p], Unmarshal(src[p], "EventProbe"), src[p])}})

\* (d *Decoder) DecodeEvent() on a reader holding the values src, the first
\* p - 1 of them consumed: [val, err] and the position afterwards.  At the end
\* of input d.decoder.Decode returns io.EOF, handed on as it is; text that is
\* not JSON is not consumed and fails every later call alike.
Decoder_DecodeEvent(src, p) ==
    IF p > Len(src) THEN [val |-> Nil, err |-> EOF, pos |-> p]
    ELSE IF ~src[p].wf
    THEN [val |-> Nil, err |-> Wrap(ErrUnmarshalFailed, <<JSONError(src[p])>>), pos |-> p]
    ELSE Only({[val |-> r.val, err |-> r.err, pos |-> p + 1] :
                  r \in {eventFromProbed(src[p], Unmarshal(src[p], "EventProbe"), src[p])}})

\* (d *Decoder) DecodeMessage()
Decoder_DecodeMessage(src, p) ==
    IF p > Len(src) THEN [val |-> Nil, err |-> EOF, pos |-> p]
    ELSE IF ~src[p].wf
    THEN [val |-> Nil, err |-> Wrap(ErrUnmarshalFailed, <<JSONError(src[p])>>), pos |-> p]
    ELSE Only({[val |-> r.val, err |-> r.err, pos |-> p + 1] :
                  r \in {messageFromProbed(src[p], Unmarshal(src[p], "MessageProbe"), src[p])}})

\* NewDecoder(r) has returned: the reader holds the source, nothing is read.
DecoderInit ==
    /\ value = Nil /\ data = NilBytes /\ ret = NoRet /\ writer = <<>>
    /\ mode = "" /\ source \in Sources(EventStreamValues) \cup Sources(MessageStreamValues)
    /\ pos = 1 /\ pc = "idle" /\ pending = NoResult
    /\ valueChan = <<>> /\ errorChan = <<>> /\ valueClosed = FALSE /\ errorClosed = FALSE
    /\ sentVals = <<>> /\ sentErrs = <<>> /\ recvVals = <<>> /\ recvErrs = <<>>
    /\ got = NothingReceived

\* val, err := d.DecodeEvent()
Decoder_DecodeEventCall ==
    /\ \E r \in {Decoder_DecodeEvent(source, pos)} :
         /\ ret' = [op |-> "Decoder.DecodeEvent", val |-> r.val, data |-> NilBytes, err |-> r.err]
         /\ pos' = r.pos
    /\ UNCHANGED <<value, data, writer>>
    /\ UNCHANGED <<mode, source, pc, pending, valueChan, errorChan, valueClosed, errorClosed,
                   sentVals, sentErrs, recvVals, recvErrs, got>>

\* val, err := d.DecodeMessage()
Decoder_DecodeMessageCall ==
    /\ \E r \in {Decoder_DecodeMessage(source, pos)} :
         /\ ret' = [op |-> "Decoder.DecodeMessage", val |-> r.val, data |-> NilBytes, err |-> r.err]
         /\ pos' = r.pos
    /\ UNCHANGED <<value, data, writer>>
    /\ UNCHANGED <<mode, source, pc, pending, valueChan, errorChan, valueClosed, errorClosed,
                   sentVals, sentErrs, recvVals, recvErrs, got>>

DecoderNext ==
    \/ Decoder_DecodeEventCall
    \/ Decoder_DecodeMessageCall

SpecDecoder == DecoderInit /\ [][DecoderNext]_vars

\* ------------------------------------------------- properties of the codec
\* w carries every populated field of v unchanged, and is empty where v is.
SamePopulated(v, w) ==
    /\ w # Nil
    /\ DOMAIN w = DOMAIN v
    /\ \A i \in DOMAIN StructOf(v.variant) :
          LET f == StructOf(v.variant)[i]
          IN IF isEmptyValue(f.typ, v[f.name]) /\ f.omitempty
             THEN isEmptyValue(f.typ, w[f.name])
             ELSE w[f.name] = v[f.name]

\* The four causes of a decode failure, read off the input bytes.
Discriminator(d, key) ==
    IF d.wf /\ d.j.k = "obj" /\ key \in DOMAIN d.j.f /\ d.j.f[key].k = "str" THEN d.j.f[key].s ELSE ""

VariantOfType(t) ==
    CASE t = EventTypeRunStarted -> "RunStartedEvent"
      [] t = EventTypeRunFinished -> "RunFinishedEvent"
      [] t = EventTypeRunError -> "RunErrorEvent"
      [] t = EventTypeStepStarted -> "StepStartedEvent"
      [] t = EventTypeStepFinished -> "StepFinishedEvent"
      [] t = EventTypeTextMessageStart -> "TextMessageStartEvent"
      [] t = EventTypeTextMessageContent -> "TextMessageContentEvent"
      [] t = EventTypeTextMessageEnd -> "TextMessageEndEvent"
      [] t = EventTypeToolCallStart -> "ToolCallStartEvent"
      [] t = EventTypeToolCallArgs -> "ToolCallArgsEvent"
      [] t = EventTypeToolCallEnd -> "ToolCallEndEvent"
      [] t = EventTypeToolCallResult -> "ToolCallResultEvent"
      [] t = EventTypeStateSnapshot -> "StateSnapshotEvent"
      [] t = EventTypeStateDelta -> "StateDeltaEvent"
      [] t = EventTypeMessagesSnapshot -> "MessagesSnapshotEvent"
      [] t = EventTypeRaw -> "RawEvent"
      [] t = EventTypeCustom -> "CustomEvent"

\* a well-formed JSON object whose discriminator is absent, empty or unrecognized
UnknownType(d, key) ==
    /\ d.wf /\ d.j.k = "obj"
    /\ key \in DOMAIN d.j.f => d.j.f[key].k = "str"
    /\ IF key = "type" THEN ~EventType_IsValid(Discriminator(d, key))
       ELSE ~Role_IsValid(Discriminator(d, key))

EventCause(d) ==
    IF ~d.wf THEN "malformed-input"
    ELSE IF UnknownType(d, "type") THEN "unknown-type"
    ELSE IF ~EventType_IsValid(Discriminator(d, "type")) THEN "other"
    ELSE IF ~Unmarshal(d, VariantOfType(Discriminator(d, "type"))).ok THEN "shape-mismatch"
    ELSE IF Event_Validate(Unmarshal(d, VariantOfType(Discriminator(d, "type"))).v) # NoErr
    THEN "validation-failed"
    ELSE "none"

DecodeOps == {"DecodeEventFromBytes", "DecodeMessageFromBytes"}

\* C3: every valid event survives EncodeEvent followed by DecodeEventFromBytes:
\* the decode succeeds and returns the same variant, the same discriminator and
\* the same populated fields (MessagesSnapshot with messages included).
C3_EventRoundTrip ==
    (ret.op = "DecodeEventFromBytes" /\ IsEvent(value)) =>
        /\ ret.err = NoErr
        /\ EventTypeName(ret.val) = EventTypeName(value)
        /\ GetType(ret.val) = GetType(value)
        /\ SamePopulated(value, ret.val)

\* C4: every valid message survives EncodeMessage followed by
\* DecodeMessageFromBytes: same variant, role, id and populated fields, and an
\* empty optional name, content or error is absent on the wire and decodes empty.
C4_MessageRoundTrip ==
    (ret.op = "DecodeMessageFromBytes" /\ IsMessage(value)) =>
        /\ ret.err = NoErr
        /\ MessageType(ret.val) = MessageType(value)
        /\ GetRole(ret.val) = GetRole(value)
        /\ GetID(ret.val) = GetID(value)
        /\ SamePopulated(value, ret.val)
        /\ \A key \in {"name", "content", "error"} :
              (\E i \in DOMAIN StructOf(value.variant) :
                  LET f == StructOf(value.variant)[i]
                  IN f.key = key /\ f.omitempty /\ value[f.name] = "")
              => key \notin DOMAIN data.j.f

C4_Witness ==
    /\ ret.op = "DecodeMessageFromBytes"
    /\ value.variant = "AssistantMessage"
    /\ value.Name = "" /\ value.Content = ""
    /\ Len(value.ToolCalls.items) = 2
    /\ ret.val = value

\* C5: a decode call returns either a valid value and no error, or no value
\* and an error; never a value together with an error.
C5_NoPartialSuccess ==
    ret.op \in DecodeOps =>
        \/ ret.val # Nil /\ ret.err = NoErr /\ Validate(ret.val) = NoErr
        \/ ret.val = Nil /\ ret.err # NoErr

\* C6: decoding a payload whose discriminator is recognized and whose fields
\* parse but violate a constraint of the variant fails with an error that
\* matches ErrValidationFailed; the same payload with a valid delta decodes.
C6_ValidationFailedKind ==
    ret.op = "DecodeEventFromBytes" =>
        /\ EventCause(data) = "validation-failed" => ErrorsIs(ret.err, ErrValidationFailed)
        /\ data = Bytes(JObj([type |-> JStr(EventTypeTextMessageContent),
                              messageId |-> JStr("a"), delta |-> JStr("a")]))
           => ret.err = NoErr /\ ret.val.variant = "TextMessageContentEvent" /\ ret.val.Delta = "a"

\* C7: a well-formed object with an absent, empty or unrecognized discriminator
\* fails with the unknown-discriminator kind, bytes that are not JSON fail with
\* the malformed-input kind, and neither class yields the other's kind.
C7_UnknownVersusMalformed ==
    /\ ret.op = "DecodeEventFromBytes" =>
          /\ UnknownType(data, "type") =>
                ErrorsIs(ret.err, ErrInvalidEventType) /\ ~ErrorsIs(ret.err, ErrUnmarshalFailed)
          /\ ~data.wf =>
                ErrorsIs(ret.err, ErrUnmarshalFailed) /\ ~ErrorsIs(ret.err, ErrInvalidEventType)
    /\ ret.op = "DecodeMessageFromBytes" =>
          /\ UnknownType(data, "role") =>
                ErrorsIs(ret.err, ErrInvalidMessageType) /\ ~ErrorsIs(ret.err, ErrUnmarshalFailed)
          /\ ~data.wf =>
                ErrorsIs(ret.err, ErrUnmarshalFailed) /\ ~ErrorsIs(ret.err, ErrInvalidMessageType)

\* One input per failure cause.
CauseSamples ==
    { BadBytes("syntax"),
      Bytes(JObj([type |-> JStr("NOT_A_TYPE")])),
      Bytes(JObj([type |-> JStr(EventTypeRunStarted), threadId |-> JNum(7), runId |-> JStr("a")])),
      Bytes(JObj([type |-> JStr(EventTypeRunStarted), threadId |-> JStr(""), runId |-> JStr("a")])) }

\* C8: the four failure causes are pairwise distinguishable by error kind: the
\* error of a failed decode matches no sentinel that an input failing for
\* another cause matches.
C8_CausesDistinguishable ==
    (ret.op = "DecodeEventFromBytes" /\ EventCause(data) \notin {"none", "other"}) =>
        \A d \in CauseSamples :
            EventCause(d) # EventCause(data) =>
                \A sentinel \in {ErrInvalidEventType, ErrInvalidMessageType, ErrInvalidStructure,
                                 ErrUnmarshalFailed, ErrMarshalFailed, ErrValidationFailed} :
                    ~(ErrorsIs(ret.err, sentinel) /\ ErrorsIs(DecodeEventFromBytes(d).err, sentinel))

\* C9: encoding validates first: a value that fails Validate yields no bytes,
\* an ErrValidationFailed error and no Write; bytes exist only for valid values.
C9_EncodeValidatesFirst ==
    ret.op \in {"EncodeEvent", "EncodeMessage", "Encoder.Encode"} =>
        /\ Validate(value) # NoErr =>
              ret.data = NilBytes /\ ErrorsIs(ret.err, ErrValidationFailed) /\ writer = <<>>
        /\ (ret.data # NilBytes \/ writer # <<>>) => Validate(value) = NoErr

C9_Witness ==
    /\ ret.op = "Encoder.Encode"
    /\ value.variant = "RunStartedEvent"
    /\ value.Type = EventTypeRunFinished
    /\ value.ThreadID # "" /\ value.RunID # ""
    /\ ErrorsIs(ret.err, ErrValidationFailed)

\* ------------------------------------------- properties of the StreamDecoder
DecodeFromBytes(m, d) == IF m = "events" THEN DecodeEventFromBytes(d) ELSE DecodeMessageFromBytes(d)

\* What EncodeEvent / EncodeMessage emit for the valid values.
ValidEncodedEvents == {EncodeEvent(e).data : e \in {w \in EventValues : EncodeEvent(w).err = NoErr}}

ValidEncodedMessages == {EncodeMessage(e).data : e \in {w \in MessageValues : EncodeMessage(w).err = NoErr}}

ValidEncoded(m) == IF m = "events" THEN ValidEncodedEvents ELSE ValidEncodedMessages

IsPrefix(p, q) == Len(p) <= Len(q) /\ \A i \in 1..Len(p) : p[i] = q[i]

\* The first index whose value the single-value decode rejects, Len + 1 if none.
FirstFailure(m, src) ==
    IF \E i \in 1..Len(src) : DecodeFromBytes(m, src[i]).err # NoErr
    THEN CHOOSE i \in 1..Len(src) :
            /\ DecodeFromBytes(m, src[i]).err # NoErr
            /\ \A h \in 1..(i - 1) : DecodeFromBytes(m, src[h]).err = NoErr
    ELSE Len(src) + 1

\* The first index whose value is not JSON text, Len + 1 if none.
FirstMalformed(src) ==
    IF \E i \in 1..Len(src) : ~src[i].wf
    THEN CHOOSE i \in 1..Len(src) : ~src[i].wf /\ \A h \in 1..(i - 1) : src[h].wf
    ELSE Len(src) + 1

\* C1: a source of n valid encoded events (messages) yields exactly their n
\* decodes in source order, then the value channel closes, and the error
\* channel closes without ever having carried an error.
C1_OrderedDelivery ==
    (mode # "" /\ \A i \in 1..Len(source) : source[i] \in ValidEncoded(mode)) =>
        /\ sentErrs = <<>>
        /\ Len(sentVals) <= Len(source)
        /\ \A i \in 1..Len(sentVals) :
              sentVals[i] # Nil /\ sentVals[i] = DecodeFromBytes(mode, source[i]).val
        /\ IsPrefix(recvVals, sentVals)
        /\ pc = "done" => Len(sentVals) = Len(source) /\ valueClosed /\ errorClosed

\* C2: when the k-th value is malformed and the values before it are valid,
\* exactly the first k-1 values are delivered, then exactly one error of kind
\* ErrUnmarshalFailed, then both channels close; the error is not observed
\* before the k-1 values have been put on the value channel, and no value at
\* position k or later is ever delivered.
C2_FailFast ==
    LET k == FirstMalformed(source)
    IN (/\ mode # "" /\ k <= Len(source) /\ source[k].why = "syntax"
        /\ \A i \in 1..(k - 1) : source[i] \in ValidEncoded(mode)) =>
           /\ Len(sentVals) <= k - 1
           /\ \A i \in 1..Len(sentVals) : sentVals[i] = DecodeFromBytes(mode, source[i]).val
           /\ IsPrefix(recvVals, sentVals) /\ IsPrefix(recvErrs, sentErrs)
           /\ sentErrs # <<>> =>
                 Len(sentVals) = k - 1 /\ Len(sentErrs) = 1 /\ ErrorsIs(sentErrs[1], ErrUnmarshalFailed)
           /\ pc = "done" => Len(sentErrs) = 1 /\ valueClosed /\ errorClosed

\* C10: the stream is the sequential fold of the single-value decode: with k
\* the first index DecodeEventFromBytes (DecodeMessageFromBytes) rejects, the
\* values sent are the decodes of v1..v(k-1) in order, the one error sent is
\* exactly the error that decode returns for vk, and nothing after vk is read.
C10_SequentialFold ==
    (mode # "" /\ \A i \in 1..Len(source) : source[i].wf) =>
        LET k == FirstFailure(mode, source)
        IN /\ Len(sentVals) <= k - 1
           /\ \A i \in 1..Len(sentVals) : sentVals[i] = DecodeFromBytes(mode, source[i]).val
           /\ IsPrefix(recvVals, sentVals) /\ IsPrefix(recvErrs, sentErrs)
           /\ pos <= (IF k <= Len(source) THEN k ELSE Len(source)) + 1
           /\ sentErrs # <<>> =>
                 /\ k <= Len(source) /\ Len(sentVals) = k - 1
                 /\ sentErrs = <<DecodeFromBytes(mode, source[k]).err>>
           /\ pc = "done" =>
                 /\ Len(sentVals) = k - 1
                 /\ Len(sentErrs) = (IF k <= Len(source) THEN 1 ELSE 0)

C10_Witness ==
    /\ mode = "events" /\ pc = "done"
    /\ Len(source) = 3 /\ \A i \in 1..3 : source[i].wf
    /\ FirstFailure(mode, source) = 2
    /\ DecodeFromBytes(mode, source[3]).err = NoErr
    /\ Len(recvVals) = 1 /\ Len(recvErrs) = 1
    /\ ~ErrorsIs(recvErrs[1], ErrUnmarshalFailed)

\* The source still holds a value the single-value decode accepts.
ValidValueLeft ==
    pos <= Len(source) /\ source[pos].wf /\ DecodeFromBytes(mode, source[pos]).err = NoErr

\* C11: once the producer has hit a read or decode error it reads nothing more
\* from the source and sends nothing more on the value channel, whatever the
\* source still holds.
C11_NoReadAfterError ==
    [][pending.err # NoErr =>
          /\ pos' = pos
          /\ sentVals' = sentVals
          /\ pending' = pending
          /\ pc' # "read" /\ pc' # "sendValue"]_vars

C11_Witness ==
    /\ pc = "done" /\ pending.err # NoErr /\ sentErrs = <<pending.err>>
    /\ Len(sentVals) = 1
    /\ ValidValueLeft

C13_Termination == <>[](pc = "done" /\ valueClosed /\ errorClosed)

C13_Witness ==
    /\ pc = "done" /\ valueClosed /\ errorClosed
    /\ Len(source) = LongLen /\ Len(recvVals) = LongLen /\ sentErrs = <<>>

\* C14: the value channel never buffers more than 10 values and the producer
\* holds at most one decoded value beyond those it has enqueued; with a full
\* buffer the producer can take no step until a consumer receives; so when no
\* consumer ever receives and the source holds more than 10 valid values, the
\* producer stalls and neither channel is closed.
C14_Backpressure ==
    /\ Len(valueChan) <= ValueChanCap
    /\ Len(sentVals) = Len(recvVals) + Len(valueChan)
    /\ pos - 1 <= Len(sentVals) + 1
    /\ (pc = "sendValue" /\ Len(valueChan) = ValueChanCap) => ~ENABLED Producer
    /\ (/\ mode # "" /\ recvVals = <<>> /\ Len(source) > ValueChanCap
        /\ \A i \in 1..Len(source) : source[i] \in ValidEncoded(mode)
        /\ \A i \in 1..Len(source) : DecodeFromBytes(mode, source[i]).err = NoErr)
       => ~valueClosed /\ ~errorClosed /\ pc # "done" /\ pos <= ValueChanCap + 2

C14_Witness ==
    /\ pc = "sendValue" /\ Len(valueChan) = ValueChanCap /\ recvVals = <<>>
    /\ pos = ValueChanCap + 2 /\ ~ENABLED Producer

RECURSIVE IsSubseq(_, _)
\* p is q with some elements left out.
IsSubseq(p, q) ==
    IF p = <<>> THEN TRUE
    ELSE IF q = <<>> THEN FALSE
    ELSE IF Head(p) = Head(q) THEN IsSubseq(Tail(p), Tail(q))
    ELSE IsSubseq(p, Tail(q))

RECURSIVE TotalReceived(_)
\* How many values the consumers 1..n hold together.
TotalReceived(n) == IF n = 0 THEN 0 ELSE Len(got[n]) + TotalReceived(n - 1)

\* C15: with several consumers on one value channel, the receive events taken
\* together follow the source order, and every value goes to exactly one
\* consumer: none is received twice and none is lost.
C15_ConsumersInOrder ==
    mode # "" =>
        /\ IsPrefix(recvVals, sentVals)
        /\ \A i \in 1..Len(recvVals) : recvVals[i] = DecodeFromBytes(mode, source[i]).val
        /\ TotalReceived(NumConsumers) = Len(recvVals)
        /\ \A c \in Consumers : IsSubseq(got[c], recvVals)
        /\ pc = "done" /\ valueChan = <<>> => recvVals = sentVals

C15_Witness ==
    /\ pc = "done" /\ valueChan = <<>> /\ Len(recvVals) = 3
    /\ recvVals[1] # recvVals[2]
    /\ Len(got[1]) = 1 /\ Len(got[2]) = 2 /\ got[1] = <<recvVals[2]>>

\* ---------------------------------------------- properties of Validate
\* The indexes (from 1) of the elements of items that fail their own Validate.
InvalidMessages(items) == {i \in 1..Len(items) : Message_Validate(items[i]) # NoErr}

InvalidTools(items) == {i \in 1..Len(items) : Tool_Validate(items[i]) # NoErr}

InvalidContexts(items) == {i \in 1..Len(items) : Context_Validate(items[i]) # NoErr}

Least(S) == CHOOSE i \in S : \A j \in S : i <= j

\* The failure reported for the first invalid element of a collection: it names
\* the collection and the element's index, counted from 0, and carries the
\* element's own failure.
ReportsFirst(err, what, bad, elementErr) ==
    /\ err # NoErr
    /\ err.msg = <<what, ToString(Least(bad) - 1)>> \o elementErr.msg

\* C16: RunAgentInput.Validate fails when threadId or runId is empty; otherwise
\* it checks messages, then tools, then context, it fails iff some element
\* fails its own Validate, and the failure names the collection and the index
\* of the first invalid element; it succeeds iff the two ids are set and every
\* element of the three sequences is valid.
C16_RunAgentInputAggregation ==
    ret.op = "RunAgentInput.Validate" =>
        LET ms == value.Messages.items
            ts == value.Tools.items
            cs == value.Context.items
            badM == InvalidMessages(ms)
            badT == InvalidTools(ts)
            badC == InvalidContexts(cs)
        IN /\ (value.ThreadID = "" \/ value.RunID = "") => ret.err # NoErr
           /\ ret.err = NoErr <=>
                 /\ value.ThreadID # "" /\ value.RunID # ""
                 /\ badM = {} /\ badT = {} /\ badC = {}
           /\ (value.ThreadID # "" /\ value.RunID # "") =>
                 /\ badM # {} =>
                       ReportsFirst(ret.err, "invalid message at index", badM, Message_Validate(ms[Least(badM)]))
                 /\ (badM = {} /\ badT # {}) =>
                       ReportsFirst(ret.err, "invalid tool at index", badT, Tool_Validate(ts[Least(badT)]))
                 /\ (badM = {} /\ badT = {} /\ badC # {}) =>
                       ReportsFirst(ret.err, "invalid context at index", badC, Context_Validate(cs[Least(badC)]))

\* Valid messages, three tools of which only the one at index 2 is invalid:
\* the failure identifies tool index 2.
C16_Witness ==
    /\ ret.op = "RunAgentInput.Validate"
    /\ value.Messages.items # <<>> /\ InvalidMessages(value.Messages.items) = {}
    /\ Len(value.Tools.items) = 3 /\ InvalidTools(value.Tools.items) = {3}
    /\ ret.err.msg[1] = "invalid tool at index" /\ ret.err.msg[2] = "2"

InvalidToolCalls(items) == {i \in 1..Len(items) : ToolCall_Validate(items[i]) # NoErr}

\* The header of an AssistantMessage is valid: id set, role recognized and
\* equal to the variant's fixed role.
AssistantHeaderValid(m) == m.ID # "" /\ Role_IsValid(m.Role) /\ m.Role = RoleAssistant

\* C17: FunctionCall.Validate succeeds iff Name is non-empty and Arguments is a
\* non-empty string that parses as JSON; ToolCall.Validate succeeds iff ID is
\* non-empty, Type is exactly "function" and its FunctionCall validates;
\* AssistantMessage.Validate fails iff its header is invalid or some tool call
\* is invalid, and then reports the index of the first invalid tool call.
C17_FunctionCallContract ==
    /\ ret.op = "FunctionCall.Validate" =>
          /\ ret.err = NoErr <=>
                value.Name # "" /\ value.Arguments # "" /\ StringIsJSON(value.Arguments)
          /\ value.Arguments = "{bad json}" => ret.err # NoErr
          /\ (value.Name = "x" /\ value.Arguments = "{\"k\":1}") => ret.err = NoErr
    /\ ret.op = "ToolCall.Validate" =>
          ret.err = NoErr <=>
            /\ value.ID # "" /\ value.Type = "function"
            /\ value.Function.Name # "" /\ value.Function.Arguments # ""
            /\ StringIsJSON(value.Function.Arguments)
    /\ (ret.op = "Message.Validate" /\ value.variant = "AssistantMessage") =>
          LET bad == InvalidToolCalls(value.ToolCalls.items)
          IN /\ ret.err # NoErr <=> (~AssistantHeaderValid(value) \/ bad # {})
             /\ (AssistantHeaderValid(value) /\ bad # {}) =>
                   ReportsFirst(ret.err, "invalid tool call at index", bad,
                                ToolCall_Validate(value.ToolCalls.items[Least(bad)]))

\* An assistant message with a valid header whose second tool call carries the
\* arguments "{bad json}": the failure names index 1 and the JSON constraint.
C17_Witness ==
    /\ ret.op = "Message.Validate" /\ value.variant = "AssistantMessage"
    /\ AssistantHeaderValid(value)
    /\ Len(value.ToolCalls.items) = 2
    /\ value.ToolCalls.items[2].ID # "" /\ value.ToolCalls.items[2].Type = "function"
    /\ value.ToolCalls.items[2].Function.Name = "x"
    /\ value.ToolCalls.items[2].Function.Arguments = "{bad json}"
    /\ ret.err.msg = <<"invalid tool call at index", "1", "function arguments must be valid JSON">>

\* ----------------------------------------------- properties of timestamps
\* C18: the codec never sets or recomputes timestamps: EncodeEvent leaves its
\* argument unchanged; only SetTimestamp assigns a timestamp; an event without a
\* timestamp encodes without a `timestamp` key and one with timestamp T encodes
\* T; every encoded event decodes to an event with the timestamp it had.
C18_TimestampsUntouched ==
    /\ [][EncodeEventCall => value' = value]_vars
    /\ [][(IsEvent(value) /\ value'.Timestamp # value.Timestamp) =>
            SetTimestampCall]_vars
    /\ []((ret.op = "EncodeEvent" /\ ret.err = NoErr) =>
            IF value.Timestamp = NilPtr
            THEN "timestamp" \notin DOMAIN ret.data.j.f
            ELSE /\ "timestamp" \in DOMAIN ret.data.j.f
                 /\ ret.data.j.f["timestamp"] = JNum(value.Timestamp[1]))
    /\ []((ret.op = "DecodeEventFromBytes" /\ IsEvent(value)) =>
            ret.val # Nil /\ ret.val.Timestamp = value.Timestamp)

\* ------------------------------------------------ properties of dispatch
AllEventTypes ==
    {EventTypeTextMessageStart, EventTypeTextMessageContent, EventTypeTextMessageEnd,
     EventTypeToolCallStart, EventTypeToolCallArgs, EventTypeToolCallEnd, EventTypeToolCallResult,
     EventTypeStateSnapshot, EventTypeStateDelta, EventTypeMessagesSnapshot, EventTypeRaw,
     EventTypeCustom, EventTypeRunStarted, EventTypeRunFinished, EventTypeRunError,
     EventTypeStepStarted, EventTypeStepFinished}

AllRoles == {RoleDeveloper, RoleSystem, RoleAssistant, RoleUser, RoleTool}

\* Strings that are no discriminator: empty, unknown, and known ones in another case.
OtherStrings == {"", "NOT_A_TYPE", "bogus", "run_started", "Step_Finished", "USER", "Assistant"}

VariantOfRole(r) ==
    CASE r = RoleDeveloper -> "DeveloperMessage"
      [] r = RoleSystem -> "SystemMessage"
      [] r = RoleAssistant -> "AssistantMessage"
      [] r = RoleUser -> "UserMessage"
      [] r = RoleTool -> "ToolMessage"

\* The variant the switch of decodeEventFromProbe selects for the type t, ""
\* when it selects none: read off the failure of the full parse of bytes that
\* no struct accepts.
SelectedEventVariant(t) ==
    LET r == decodeEventFromProbe([variant |-> "EventProbe", Type |-> t, Timestamp |-> NilPtr,
                                   RawEvent |-> JNull, RawData |-> Bytes(JNum(0))])
    IN IF ErrorsIs(r.err, ErrInvalidEventType) THEN "" ELSE r.err.msg[2]

SelectedMessageVariant(r) ==
    LET m == decodeMessageFromProbe([variant |-> "MessageProbe", Role |-> r, ID |-> "", Name |-> "",
                                     RawData |-> Bytes(JNum(0))])
    IN IF ErrorsIs(m.err, ErrInvalidMessageType) THEN "" ELSE m.err.msg[2]

\* C19: the dispatch is total and exact: a string selects a variant iff it is
\* one of the 17 EventType values (5 Role values), distinct values select
\* distinct variants, a value passes the Validate of a variant only with the
\* discriminator that selects it, and every successful decode returns the
\* variant mapped to the probed discriminator, carrying that discriminator.
C19_DispatchExact ==
    /\ Cardinality(AllEventTypes) = 17 /\ Cardinality(AllRoles) = 5
    /\ \A t \in AllEventTypes \cup AllRoles \cup OtherStrings :
          /\ SelectedEventVariant(t) # "" <=> EventType_IsValid(t)
          /\ EventType_IsValid(t) <=> t \in AllEventTypes
          /\ t \in AllEventTypes => SelectedEventVariant(t) = VariantOfType(t)
          /\ SelectedMessageVariant(t) # "" <=> Role_IsValid(t)
          /\ Role_IsValid(t) <=> t \in AllRoles
          /\ t \in AllRoles => SelectedMessageVariant(t) = VariantOfRole(t)
    /\ \A t, u \in AllEventTypes : VariantOfType(t) = VariantOfType(u) => t = u
    /\ \A r, q \in AllRoles : VariantOfRole(r) = VariantOfRole(q) => r = q
    /\ (IsEvent(value) /\ Event_Validate(value) = NoErr) =>
          value.Type \in AllEventTypes /\ value.variant = VariantOfType(value.Type)
    /\ (IsMessage(value) /\ Message_Validate(value) = NoErr) =>
          value.Role \in AllRoles /\ value.variant = VariantOfRole(value.Role)
    /\ ret.op = "DecodeEventFromBytes" =>
          /\ ret.val # Nil =>
                /\ Discriminator(data, "type") \in AllEventTypes
                /\ EventTypeName(ret.val) = VariantOfType(Discriminator(data, "type"))
          /\ ret.err = NoErr =>
                ret.val # Nil /\ GetType(ret.val) = Discriminator(data, "type")
          /\ ErrorsIs(ret.err, ErrInvalidEventType) <=>
                /\ Unmarshal(data, "EventProbe").ok
                /\ Discriminator(data, "type") \notin AllEventTypes
    /\ ret.op = "DecodeMessageFromBytes" =>
          /\ ret.val # Nil =>
                /\ Discriminator(data, "role") \in AllRoles
                /\ MessageType(ret.val) = VariantOfRole(Discriminator(data, "role"))
          /\ ret.err = NoErr =>
                ret.val # Nil /\ GetRole(ret.val) = Discriminator(data, "role")
          /\ ErrorsIs(ret.err, ErrInvalidMessageType) <=>
                /\ Unmarshal(data, "MessageProbe").ok
                /\ Discriminator(data, "role") \notin AllRoles

\* A STEP_FINISHED object with a step name decodes to a StepFinishedEvent.
C19_Witness ==
    /\ ret.op = "DecodeEventFromBytes" /\ ret.err = NoErr
    /\ Discriminator(data, "type") = EventTypeStepFinished
    /\ EventTypeName(ret.val) = "StepFinishedEvent"
    /\ GetType(ret.val) = EventTypeStepFinished

\* ---------------------------------------- properties of validation order
\* One constraint of a variant: whether the value violates it, and the
\* failure that reports it.
Check(violated, msg) == [violated |-> violated, msg |-> msg]

FixedType(variant) == CHOOSE t \in AllEventTypes : VariantOfType(t) = variant

FixedRole(variant) == CHOOSE r \in AllRoles : VariantOfRole(r) = variant

IdentityFailure(variant) ==
    CASE variant = "RunStartedEvent" -> "run started event must have RUN_STARTED type, got"
      [] variant = "RunFinishedEvent" -> "run finished event must have RUN_FINISHED type, got"
      [] variant = "RunErrorEvent" -> "run error event must have RUN_ERROR type, got"
      [] variant = "StepStartedEvent" -> "step started event must have STEP_STARTED type, got"
      [] variant = "StepFinishedEvent" -> "step finished event must have STEP_FINISHED type, got"
      [] variant = "TextMessageStartEvent" -> "text message start event must have TEXT_MESSAGE_START type, got"
      [] variant = "TextMessageContentEvent" -> "text message content event must have TEXT_MESSAGE_CONTENT type, got"
      [] variant = "TextMessageEndEvent" -> "text message end event must have TEXT_MESSAGE_END type, got"
      [] variant = "ToolCallStartEvent" -> "tool call start event must have TOOL_CALL_START type, got"
      [] variant = "ToolCallArgsEvent" -> "tool call args event must have TOOL_CALL_ARGS type, got"
      [] variant = "ToolCallEndEvent" -> "tool call end event must have TOOL_CALL_END type, got"
      [] variant = "ToolCallResultEvent" -> "tool call result event must have TOOL_CALL_RESULT type, got"
      [] variant = "StateSnapshotEvent" -> "state snapshot event must have STATE_SNAPSHOT type, got"
      [] variant = "StateDeltaEvent" -> "state delta event must have STATE_DELTA type, got"
      [] variant = "MessagesSnapshotEvent" -> "messages snapshot event must have MESSAGES_SNAPSHOT type, got"
      [] variant = "RawEvent" -> "raw event must have RAW type, got"
      [] variant = "CustomEvent" -> "custom event must have CUSTOM type, got"
      [] variant = "DeveloperMessage" -> "developer message must have developer role, got"
      [] variant = "SystemMessage" -> "system message must have system role, got"
      [] variant = "AssistantMessage" -> "assistant message must have assistant role, got"
      [] variant = "UserMessage" -> "user message must have user role, got"
      [] variant = "ToolMessage" -> "tool message must have tool role, got"

\* The field constraints of each variant, in the order the data model lists them.
FieldConstraints(v) ==
    CASE v.variant \in {"RunStartedEvent", "RunFinishedEvent"} ->
            <<Check(v.ThreadID = "", "thread ID is required"), Check(v.RunID = "", "run ID is required")>>
      [] v.variant = "RunErrorEvent" -> <<Check(v.Message = "", "error message is required")>>
      [] v.variant \in {"StepStartedEvent", "StepFinishedEvent"} ->
            <<Check(v.StepName = "", "step name is required")>>
      [] v.variant = "TextMessageStartEvent" ->
            <<Check(v.MessageID = "", "message ID is required"),
              Check(v.Role # RoleAssistant, "text message role must be assistant, got")>>
      [] v.variant = "TextMessageContentEvent" ->
            <<Check(v.MessageID = "", "message ID is required"),
              Check(v.Delta = "", "delta must not be empty")>>
      [] v.variant = "TextMessageEndEvent" -> <<Check(v.MessageID = "", "message ID is required")>>
      [] v.variant = "ToolCallStartEvent" ->
            <<Check(v.ToolCallID = "", "tool call ID is required"),
              Check(v.ToolCallName = "", "tool call name is required")>>
      [] v.variant \in {"ToolCallArgsEvent", "ToolCallEndEvent"} ->
            <<Check(v.ToolCallID = "", "tool call ID is required")>>
      [] v.variant = "ToolCallResultEvent" ->
            <<Check(v.MessageID = "", "message ID is required"),
              Check(v.ToolCallID = "", "tool call ID is required"),
              Check(v.Content = "", "content is required"),
              Check(v.Role # "" /\ v.Role \notin AllRoles, "invalid role")>>
      [] v.variant = "StateSnapshotEvent" -> <<Check(v.Snapshot = JNull, "snapshot is required")>>
      [] v.variant = "StateDeltaEvent" -> <<Check(v.Delta.nil, "delta is required")>>
      [] v.variant = "MessagesSnapshotEvent" ->
            <<Check(v.Messages.nil, "messages are required"),
              Check(InvalidMessages(v.Messages.items) # {}, "invalid message at index")>>
      [] v.variant = "RawEvent" -> <<Check(v.Event = JNull, "event is required")>>
      [] v.variant = "CustomEvent" ->
            <<Check(v.Name = "", "name is required"), Check(v.Value = JNull, "value is required")>>
      [] v.variant = "DeveloperMessage" -> <<Check(v.Content = "", "developer message content is required")>>
      [] v.variant = "SystemMessage" -> <<Check(v.Content = "", "system message content is required")>>
      [] v.variant = "AssistantMessage" ->
            <<Check(InvalidToolCalls(v.ToolCalls.items) # {}, "invalid tool call at index")>>
      [] v.variant = "UserMessage" -> <<Check(v.Content = "", "user message content is required")>>
      [] v.variant = "ToolMessage" ->
            <<Check(v.Content = "", "tool message content is required"),
              Check(v.ToolCallID = "", "tool message toolCallId is required")>>

\* Every constraint of a value in the order Validate is to check them: the
\* header (recognized discriminator; for a message the id, then the role), the
\* fixed discriminator of the variant, then the fields.
Constraints(v) ==
    IF IsEvent(v)
    THEN <<Check(v.Type \notin AllEventTypes, "invalid event type"),
           Check(v.Type # FixedType(v.variant), IdentityFailure(v.variant))>> \o FieldConstraints(v)
    ELSE <<Check(v.ID = "", "message ID is required"),
           Check(v.Role \notin AllRoles, "invalid message role"),
           Check(v.Role # FixedRole(v.variant), IdentityFailure(v.variant))>> \o FieldConstraints(v)

Violated(cs) == {i \in 1..Len(cs) : cs[i].violated}

\* C20: Validate reports the earliest violated constraint only, in the order
\* header recognized, header equal to the variant's fixed value, fields as
\* listed (for a message: id, role recognized, role fixed, fields); it succeeds
\* iff none is violated, and it rejects a recognized but wrong discriminator
\* without changing the value.
C20_FirstFailureInOrder ==
    /\ [](ret.op \in {"Event.Validate", "Message.Validate"} =>
            LET cs == Constraints(value)
            IN /\ ret.err = NoErr <=> Violated(cs) = {}
               /\ Violated(cs) # {} => ret.err.msg[1] = cs[Least(Violated(cs))].msg)
    /\ [][(Event_ValidateCall \/ Message_ValidateCall) => value' = value]_vars

\* A RunStartedEvent that carries RUN_FINISHED and no ids violates three
\* constraints and is rejected for the discriminator.
C20_Witness ==
    /\ ret.op = "Event.Validate" /\ value.variant = "RunStartedEvent"
    /\ value.Type = EventTypeRunFinished /\ value.ThreadID = "" /\ value.RunID = ""
    /\ ret.err.msg = <<"run started event must have RUN_STARTED type, got", EventTypeRunFinished>>

\* -------------------------------------------------- properties of the probe
\* The call failed in its probe step: the json.Unmarshal into the probe.
ProbeFailed(r) == ErrorsIs(r.err, ErrUnmarshalFailed) /\ Len(r.err.msg) = 2

\* The object d cut down to its discriminator key.
OnlyKey(d, key) ==
    Bytes(JObj([n \in DOMAIN d.j.f \cap {key} |-> d.j.f[n]]))

\* C21: the probe pass depends only on the discriminator: a well-formed object
\* has the probe outcome of the object made of its discriminator alone, so an
\* unrecognized discriminator fails with the unknown-type kind whatever the
\* other fields are, and other fields are rejected by the full parse only.
C21_ProbeOnlyDiscriminator ==
    /\ (ret.op = "DecodeEventFromBytes" /\ data.wf /\ data.j.k = "obj") =>
          /\ ProbeFailed(ret) <=> ProbeFailed(DecodeEventFromBytes(OnlyKey(data, "type")))
          /\ ErrorsIs(ret.err, ErrInvalidEventType) <=>
                ErrorsIs(DecodeEventFromBytes(OnlyKey(data, "type")).err, ErrInvalidEventType)
    /\ (ret.op = "DecodeMessageFromBytes" /\ data.wf /\ data.j.k = "obj") =>
          /\ ProbeFailed(ret) <=> ProbeFailed(DecodeMessageFromBytes(OnlyKey(data, "role")))
          /\ ErrorsIs(ret.err, ErrInvalidMessageType) <=>
                ErrorsIs(DecodeMessageFromBytes(OnlyKey(data, "role")).err, ErrInvalidMessageType)

\* ------------------------------------- further properties of the StreamDecoder
\* The source ends inside a JSON value.
EndsTruncated(src) == src # <<>> /\ ~src[Len(src)].wf /\ src[Len(src)].why = "truncated"

\* C22: when the source is a run of valid encoded values followed by a value
\* cut short by the end of input, every complete value is delivered in order,
\* then exactly one ErrUnmarshalFailed error is sent and both channels close;
\* a run that closes without an error has ended at a value boundary.
C22_TruncatedTrailingValue ==
    /\ (/\ mode # "" /\ EndsTruncated(source)
        /\ \A i \in 1..(Len(source) - 1) : source[i] \in ValidEncoded(mode)) =>
           /\ Len(sentVals) <= Len(source) - 1
           /\ \A i \in 1..Len(sentVals) :
                 sentVals[i] # Nil /\ sentVals[i] = DecodeFromBytes(mode, source[i]).val
           /\ sentErrs # <<>> => Len(sentVals) = Len(source) - 1
           /\ pc = "done" =>
                 /\ Len(sentVals) = Len(source) - 1
                 /\ Len(sentErrs) = 1 /\ ErrorsIs(sentErrs[1], ErrUnmarshalFailed)
                 /\ valueClosed /\ errorClosed
    /\ (mode # "" /\ pc = "done" /\ sentErrs = <<>>) =>
           /\ ~EndsTruncated(source)
           /\ Len(sentVals) = Len(source)

\* ------------------------------------------ properties of the events' fields
\* The header of an event is valid: its type is the one fixed for its variant.
HeaderValid(e) == BaseEvent_Validate(e) = NoErr /\ e.Type = FixedType(e.variant)

\* C23: with a valid header, MessagesSnapshotEvent.Validate fails when messages
\* is nil, succeeds for an empty non-nil sequence, and for a non-empty one fails
\* iff some element fails its own Validate, reporting the index of the first
\* such element; StateSnapshotEvent.Validate fails iff snapshot is nil;
\* StateDeltaEvent.Validate fails iff delta is nil, so it accepts an empty
\* non-nil sequence.
C23_StatePresence ==
    (ret.op = "Event.Validate" /\ HeaderValid(value)) =>
        /\ value.variant = "MessagesSnapshotEvent" =>
              /\ value.Messages.nil => ret.err.msg = <<"messages are required">>
              /\ (~value.Messages.nil /\ value.Messages.items = <<>>) => ret.err = NoErr
              /\ ~value.Messages.nil =>
                    /\ ret.err # NoErr <=> InvalidMessages(value.Messages.items) # {}
                    /\ InvalidMessages(value.Messages.items) # {} =>
                          ReportsFirst(ret.err, "invalid message at index",
                                       InvalidMessages(value.Messages.items),
                                       Message_Validate(value.Messages.items[Least(InvalidMessages(value.Messages.items))]))
        /\ value.variant = "StateSnapshotEvent" =>
              /\ ret.err # NoErr <=> value.Snapshot = JNull
              /\ value.Snapshot = JNull => ret.err.msg = <<"snapshot is required">>
        /\ value.variant = "StateDeltaEvent" =>
              /\ ret.err # NoErr <=> value.Delta.nil
              /\ value.Delta.nil => ret.err.msg = <<"delta is required">>

C23_Witness ==
    /\ ret.op = "Event.Validate" /\ HeaderValid(value)
    /\ value.variant = "MessagesSnapshotEvent" /\ Len(value.Messages.items) = 2
    /\ InvalidMessages(value.Messages.items) = {2}
    /\ ret.err.msg[2] = "1"

\* C24: with a valid header and non-empty ids, TextMessageContentEvent.Validate
\* fails iff delta is empty, ToolCallArgsEvent.Validate succeeds for every
\* delta, the empty string included, TextMessageStartEvent.Validate fails
\* unless role is exactly assistant, and ToolCallResultEvent.Validate (with
\* content) accepts an absent role and refuses a present role that is not one
\* of the five Role values.
C24_StreamingChunks ==
    (ret.op = "Event.Validate" /\ HeaderValid(value)) =>
        /\ (value.variant = "TextMessageContentEvent" /\ value.MessageID # "") =>
              /\ ret.err # NoErr <=> value.Delta = ""
              /\ value.Delta = "" => ret.err.msg = <<"delta must not be empty">>
        /\ (value.variant = "ToolCallArgsEvent" /\ value.ToolCallID # "") => ret.err = NoErr
        /\ (value.variant = "TextMessageStartEvent" /\ value.MessageID # "") =>
              /\ ret.err = NoErr <=> value.Role = RoleAssistant
              /\ value.Role # RoleAssistant =>
                    ret.err.msg = <<"text message role must be assistant, got", value.Role>>
        /\ (/\ value.variant = "ToolCallResultEvent" /\ value.MessageID # ""
            /\ value.ToolCallID # "" /\ value.Content # "") =>
              /\ value.Role = "" => ret.err = NoErr
              /\ ret.err # NoErr <=> (value.Role # "" /\ value.Role \notin AllRoles)
              /\ ret.err # NoErr => ret.err.msg = <<"invalid role", value.Role>>

C24_Witness ==
    /\ ret.op = "Event.Validate" /\ HeaderValid(value)
    /\ value.variant = "ToolCallResultEvent" /\ value.MessageID # ""
    /\ value.ToolCallID # "" /\ value.Content # "" /\ value.Role = ""
    /\ ret.err = NoErr

\* ---------------------------------------------- properties of the factories
\* The arguments a factory-built value requires are there: no field constraint
\* of its variant is violated and, for a message, the id is set.
ArgumentsPresent(v) == Violated(FieldConstraints(v)) = {} /\ (IsMessage(v) => v.ID # "")

\* C25: each New*Event factory returns a value whose Type is the fixed type of
\* its variant and whose timestamp is set, each New*Message factory one whose
\* Role is the fixed role of its variant; so a factory-built value passes
\* Validate whenever its required arguments are there, and when it fails, it
\* fails on a field constraint, never on the membership or identity check of
\* the discriminator.
C25_FactoriesIdentity ==
    /\ IsEvent(value) =>
          /\ value.Type = FixedType(value.variant)
          /\ value.Timestamp # NilPtr
          /\ value.variant = "TextMessageStartEvent" => value.Role = RoleAssistant
          /\ value.variant = "ToolCallResultEvent" => value.Role = RoleTool
    /\ IsMessage(value) => value.Role = FixedRole(value.variant)
    /\ ret.op \in {"Event.Validate", "Message.Validate"} =>
          /\ ArgumentsPresent(value) => ret.err = NoErr
          /\ ret.err # NoErr =>
                /\ ret.err.msg[1] \notin {"invalid event type", "invalid message role",
                                          IdentityFailure(value.variant)}
                /\ \E i \in Violated(FieldConstraints(value)) \cup {0} :
                      ret.err.msg[1] = IF i = 0 THEN "message ID is required"
                                       ELSE FieldConstraints(value)[i].msg

C25_Witness ==
    /\ ret.op = "Event.Validate" /\ value.variant = "ToolCallResultEvent"
    /\ value.Timestamp = Ptr(5678) /\ value.Content = ""
    /\ ret.err.msg = <<"content is required">>

\* C26: every value sent on the value channel is non-nil and passes Validate;
\* a value whose decode returned an error is never sent: the loop sends the
\* value only when the decode of the text just read returned no error.
C26_OnlyValidValuesSent ==
    /\ \A i \in 1..Len(sentVals) : \A r \in {DecodeFromBytes(mode, source[i])} :
          /\ sentVals[i] # Nil
          /\ Validate(sentVals[i]) = NoErr
          /\ r.err = NoErr
          /\ sentVals[i] = r.val
    /\ pc = "sendValue" => pending.err = NoErr /\ pending.val # Nil
    /\ \A i \in 1..Len(valueChan) : valueChan[i] # Nil /\ Validate(valueChan[i]) = NoErr
    /\ \A i \in 1..Len(recvVals) : recvVals[i] # Nil /\ Validate(recvVals[i]) = NoErr

\* A value that decodes but fails validation came second: the first value was
\* sent, the second one was not, though the decode returned it with its error.
C26_Witness ==
    /\ pc = "done" /\ Len(source) >= 2 /\ Len(sentVals) = 1 /\ Len(sentErrs) = 1
    /\ \E r \in {DecodeFromBytes(mode, source[2])} : r.val # Nil /\ r.err # NoErr

\* C27: the error channel is closed before the value channel: once the value
\* channel is closed, the error channel is closed already and the terminal
\* error, if any, has been sent, so that a receive on the error channel does
\* not block (it gets the buffered error or finds the channel closed).
C27_CloseOrdering ==
    /\ [](valueClosed => errorClosed)
    /\ [](valueClosed => pc = "done" /\ (pending.err # NoErr => Len(sentErrs) = 1))
    /\ [](valueClosed => sentErrs = recvErrs \o errorChan)
    /\ [][StreamCloseValue => errorClosed /\ errorChan' = errorChan /\ sentErrs' = sentErrs]_vars
    /\ [][errorClosed => sentErrs' = sentErrs]_vars

C27_Witness ==
    /\ valueClosed /\ errorClosed /\ Len(errorChan) = 1 /\ recvErrs = <<>>
    /\ pending.err = errorChan[1]

\* C28: the producer never blocks on the error channel: its buffer holds one
\* error and at most one is ever sent.  After an error the producer sends it,
\* returns and closes both channels, even when no consumer ever receives.  The
\* one place where it can wait is the send on the value channel, while the
\* buffer is full.
C28_ErrorSendNeverBlocks ==
    /\ [](pc = "sendError" => errorChan = <<>> /\ ENABLED StreamSendError)
    /\ [](Len(sentErrs) <= 1 /\ Len(errorChan) <= ErrorChanCap)
    /\ [](pc \in {"closeError", "closeValue"} => ENABLED Producer)
    /\ [](pc = "read" => ENABLED StreamRead)
    /\ [](pc = "sendValue" => (ENABLED StreamSendValue <=> Len(valueChan) < ValueChanCap))
    /\ (pc = "sendError") ~> (pc = "done" /\ errorClosed /\ valueClosed /\ Len(sentErrs) = 1)

C28_Witness ==
    /\ pc = "done" /\ errorClosed /\ valueClosed
    /\ Len(sentErrs) = 1 /\ errorChan = sentErrs
    /\ recvVals = <<>> /\ recvErrs = <<>> /\ Len(sentVals) = 2

\* ------------------------------------------------ properties of the Decoder
\* C29: successive Decoder.DecodeEvent (DecodeMessage) calls on well-formed
\* JSON values return the decode results of those values in source order, one
\* value consumed per call; a call that fails with an unknown type or a
\* validation failure has consumed its value, so the next call decodes the
\* following one; at the end of input the call returns no value and io.EOF
\* itself, not wrapped in ErrUnmarshalFailed.
C29_DecoderSequencing ==
    /\ [][Decoder_DecodeEventCall =>
            IF pos > Len(source)
            THEN ret'.val = Nil /\ ret'.err = EOF /\ pos' = pos
            ELSE source[pos].wf =>
                    /\ pos' = pos + 1
                    /\ \E r \in {DecodeEventFromBytes(source[pos])} :
                          ret'.val = r.val /\ ret'.err = r.err]_vars
    /\ [][Decoder_DecodeMessageCall =>
            IF pos > Len(source)
            THEN ret'.val = Nil /\ ret'.err = EOF /\ pos' = pos
            ELSE source[pos].wf =>
                    /\ pos' = pos + 1
                    /\ \E r \in {DecodeMessageFromBytes(source[pos])} :
                          ret'.val = r.val /\ ret'.err = r.err]_vars
    /\ []((ret.op # "none" /\ ret.err = EOF) =>
            /\ pos = Len(source) + 1 /\ ret.val = Nil
            /\ ~ErrorsIs(ret.err, ErrUnmarshalFailed))
    /\ []((ret.op # "none" /\ pos <= Len(source) /\ source[pos].wf) => ret.err # EOF)
    /\ [](pos \in 1..(Len(source) + 1))

\* The first value has an unrecognized type, the first call failed on it, and
\* the second call has decoded the value that follows.
C29_Witness ==
    /\ ret.op = "Decoder.DecodeEvent" /\ pos = 3 /\ ret.err = NoErr /\ ret.val # Nil
    /\ source[1] = Bytes(JObj([type |-> JStr("NOT_A_TYPE")]))

\* ------------------------------------- properties of the two parses of decode
\* C30: the probe and the full parse read the same bytes, so whenever the
\* switch selects a variant and the full parse succeeds, the Type (Role) of the
\* parsed value is the fixed one of that variant and the one written in the
\* input: on the decode path Validate never fails on the membership or the
\* identity check of the discriminator, and decode does not rewrite it.
C30_ProbeAndParseAgree ==
    /\ (ret.op = "DecodeEventFromBytes" /\ ret.val # Nil) =>
          /\ ret.val.variant = VariantOfType(Discriminator(data, "type"))
          /\ ret.val.Type = FixedType(ret.val.variant)
          /\ ret.val.Type = Discriminator(data, "type")
          /\ BaseEvent_Validate(ret.val) = NoErr
          /\ ret.err # NoErr =>
                /\ ret.err.msg[1] \notin {"invalid event type", IdentityFailure(ret.val.variant)}
                /\ \E i \in Violated(FieldConstraints(ret.val)) :
                      ret.err.msg[1] = FieldConstraints(ret.val)[i].msg
    /\ (ret.op = "DecodeMessageFromBytes" /\ ret.val # Nil) =>
          /\ ret.val.variant = VariantOfRole(Discriminator(data, "role"))
          /\ ret.val.Role = FixedRole(ret.val.variant)
          /\ ret.val.Role = Discriminator(data, "role")
          /\ ret.err # NoErr =>
                /\ ret.err.msg[1] \notin {"invalid message role", IdentityFailure(ret.val.variant)}
                /\ \E i \in Violated(FieldConstraints(ret.val)) \cup {0} :
                      ret.err.msg[1] = IF i = 0 THEN "message ID is required"
                                       ELSE FieldConstraints(ret.val)[i].msg

\* A TEXT_MESSAGE_CONTENT object without delta: the full parse succeeded, the
\* value carries the type of the input, and Validate failed on the field.
C30_Witness ==
    /\ ret.op = "DecodeEventFromBytes" /\ ret.val # Nil
    /\ ret.val.variant = "TextMessageContentEvent"
    /\ Discriminator(data, "type") = EventTypeTextMessageContent
    /\ ret.err.msg = <<"delta must not be empty">>

====
